---------------------------- MODULE Spec2Model ----------------------------
(***************************************************************************)
(* The telemetry validation and multi-resolution aggregation pipeline of   *)
(* netolight (api/services.py, api/repositories.py, api/main.py).          *)
(*                                                                         *)
(* Representation:                                                         *)
(*  - a timestamp is a number of seconds since Monday 2024-01-01 00:00 of  *)
(*    the deployment's time zone (America/Santo_Domingo has no DST; the    *)
(*    process, the database session and the default zone are taken to be   *)
(*    the same zone, as the repository's tests do);                        *)
(*  - voltage, current, power and frequency are fixed-point numbers in     *)
(*    units of 0.0001, with NaN a separate value that every comparison     *)
(*    treats as IEEE-754 does; energy counters are integers;               *)
(*  - a table is a set of rows, every row carrying the id the database     *)
(*    gave it, so that two equal rows can coexist;                         *)
(*  - the base64 text of a payload is represented by the bytes it carries. *)
(***************************************************************************)
EXTENDS Integers, Sequences, FiniteSets, TLC

\* ------------------------------------------------------------------ bounds
\* rows the service-level calls may create (SpecService, SpecValidate)
MaxCalls == 4
MaxValidated == 2
\* messages the producers put on the Redis stream (Spec)
MaxMsgs == 3

\* ------------------------------------------------------------- null / NaN
\* Python's None (a null column, a function returning nothing)
None == -1
\* float('nan')
NaN == -2

IsNaN(x) == x = NaN
\* IEEE-754 comparisons: false as soon as one side is NaN
FLess(a, b) == ~IsNaN(a) /\ ~IsNaN(b) /\ a < b
FGreater(a, b) == ~IsNaN(a) /\ ~IsNaN(b) /\ a > b

\* ------------------------------------------------------------------- time
SecondsPerHour == 3600
SecondsPerDay == 24 * SecondsPerHour
\* first day (counted from the epoch) of January .. April 2024
MonthStartDays == {0, 31, 60, 91}

SetMax(S) == CHOOSE x \in S : \A y \in S : y <= x
SetMin(S) == CHOOSE x \in S : \A y \in S : x <= y

\* the minutes kept: replace(microsecond=0, second=0)
round_to_hour_keeps_minutes(dt) == dt - (dt % 60)
\* the time of day kept
round_to_day_keeps_time(dt) == dt
\* api.utils.round_to_hour: replace(microsecond=0, second=0, minute=0)
round_to_hour(dt) == dt - (dt % SecondsPerHour)
\* api.utils.round_to_day: combine(dt, time.min)
round_to_day(dt) == dt - (dt % SecondsPerDay)
\* datetime.weekday(): Monday is 0
weekday(dt) == (dt \div SecondsPerDay) % 7
\* api.utils.round_to_week: round_to_day(dt) - timedelta(days=weekday)
round_to_week(dt) == round_to_day(dt) - weekday(dt) * SecondsPerDay
\* api.utils.round_to_month: datetime(year, month, 1)
round_to_month(dt) ==
    SecondsPerDay * SetMax({m \in MonthStartDays : m * SecondsPerDay <= dt})

\* PostgreSQL date_trunc(unit, ts); weeks start on Monday
date_trunc(unit, ts) ==
    CASE unit = "hour" -> ts - (ts % SecondsPerHour)
      [] unit = "day" -> ts - (ts % SecondsPerDay)
      [] unit = "week" ->
            (ts - (ts % SecondsPerDay))
                - ((ts \div SecondsPerDay) % 7) * SecondsPerDay
      [] unit = "month" ->
            SecondsPerDay
                * SetMax({m \in MonthStartDays : m * SecondsPerDay <= ts})

\* ------------------------------------------------------------------ codec
\* struct.pack('<d', val): eight bytes; the value is kept in the first
\* position and the other seven positions stand for the rest of the double
struct_pack_d(val) == <<val, 0, 0, 0, 0, 0, 0, 0>>
\* encode_float(h, val): the tag byte followed by the packed double
encode_float(h, val) == <<h>> \o struct_pack_d(val)

\* encode_state_data: tags V I M E W F S are the ASCII codes
encode_state_data(sds) ==
    encode_float(86, sds.voltage)
        \o encode_float(73, sds.current)
        \o encode_float(77, sds.energy_out)
        \o encode_float(69, sds.energy_in)
        \o encode_float(87, sds.power)
        \o encode_float(70, sds.frequency)
        \o <<83>>
        \o (IF sds.status_on THEN <<1>> ELSE <<0>>)
        \o <<255, 255, 255, 255, 255, 255, 255, 255>>

\* Python slice b[lo:hi] of a byte string (0-based, hi exclusive, clipped)
Slice(b, lo, hi) ==
    IF lo >= Len(b) \/ hi <= lo THEN <<>>
    ELSE SubSeq(b, lo + 1, IF hi < Len(b) THEN hi ELSE Len(b))

\* the slices taken at the tag bytes instead of after them
DecodeSlices_without_tag_skip(s) ==
    [i \in 0..6 |-> Slice(s, 9 * i, 9 * i + 8)]
\* the seven slices decode_state_data takes: [i + 1 + 8*i : 9*(i + 1)]
DecodeSlices(s) == [i \in 0..6 |-> Slice(s, i + 1 + 8 * i, 9 * (i + 1))]

\* decode_state_data returns (instead of raising): struct.unpack('<d', x)
\* needs exactly 8 bytes, x[0] needs at least one
DecodeOk(s) ==
    /\ \A j \in 0..5 : Len(DecodeSlices(s)[j]) = 8
    /\ Len(DecodeSlices(s)[6]) >= 1

decode_state_data(s) ==
    LET vals == [j \in 0..6 |->
                    IF j < 6 THEN DecodeSlices(s)[j][1]
                    ELSE DecodeSlices(s)[j][1] # 0]
    IN  [voltage |-> vals[0], current |-> vals[1], energy_out |-> vals[2],
         energy_in |-> vals[3], power |-> vals[4], frequency |-> vals[5],
         status_on |-> vals[6]]

\* ------------------------------------------------------------ the database
Resolutions == {"hourly", "daily", "weekly", "monthly"}

\* f'streetlamp:state:<resolution>:<dev_eui>'
StreamName(res, dev_eui) == <<res, dev_eui>>

\* lower() of a device identifier
LowerEui(e) == IF e = "A1" THEN "a1" ELSE IF e = "B2" THEN "b2" ELSE e
\* sa.func.lower(name)
LowerName(name) == <<name[1], LowerEui(name[2])>>

EmptyDb ==
    [streetlamp_states |-> {}, streetlamp_alarms |-> {}, stream_states |-> {},
     hourly_streetlamp_states |-> {}, daily_streetlamp_states |-> {},
     weekly_streetlamp_states |-> {}, monthly_streetlamp_states |-> {}]

\* the id a serial primary key gives the next row of a table
NextId(table) == IF table = {} THEN 1 ELSE SetMax({r.id : r \in table}) + 1


RECURSIVE SumField(_, _)
\* SQL sum(column) over a set of rows
SumField(rows, col) ==
    IF rows = {} THEN 0
    ELSE LET r == CHOOSE x \in rows : TRUE
         IN  r[col] + SumField(rows \ {r}, col)

\* SQL avg(column): the mean, cut to the model's resolution
AvgField(rows, col) == SumField(rows, col) \div Cardinality(rows)

\* ---- StreamStateRepository
\* find_by_name: lower(name) = lower(:name), .scalar() takes the first row
\* (the result is a set: empty for None, else the one row returned)
find_by_name(d, name) ==
    LET hits == {r \in d.stream_states : LowerName(r.name) = LowerName(name)}
    IN  {r \in hits : \A o \in hits : r.id <= o.id}

\* an upsert that replaces the whole row: the consumer_ts is lost
update_producer_replaces_row(d, name, producer_ts) ==
    [d EXCEPT !.stream_states =
        {r \in @ : r.name # name}
            \cup {[id |-> IF \E r \in @ : r.name = name
                          THEN (CHOOSE r \in @ : r.name = name).id
                          ELSE NextId(@),
                   name |-> name, producer_ts |-> producer_ts,
                   consumer_ts |-> None]}]

\* update_producer: INSERT (name, producer_ts) ON CONFLICT (name) DO UPDATE
\* SET producer_ts; a new row has a null consumer_ts
update_producer(d, name, producer_ts) ==
    IF \E r \in d.stream_states : r.name = name
    THEN [d EXCEPT !.stream_states =
            {IF r.name = name THEN [r EXCEPT !.producer_ts = producer_ts]
             ELSE r : r \in @}]
    ELSE [d EXCEPT !.stream_states =
            @ \cup {[id |-> NextId(@), name |-> name,
                     producer_ts |-> producer_ts, consumer_ts |-> None]}]

\* the consumer never advanced
update_consumer_not_written(d, name, consumer_ts) == d

\* the consumer_ts written to the stream of every device of the resolution
update_consumer_every_device(d, name, consumer_ts) ==
    [d EXCEPT !.stream_states =
        {IF r.name[1] = name[1] THEN [r EXCEPT !.consumer_ts = consumer_ts]
         ELSE r : r \in @}]

\* update_consumer: UPDATE ... SET consumer_ts WHERE name = :name
update_consumer(d, name, consumer_ts) ==
    [d EXCEPT !.stream_states =
        {IF r.name = name THEN [r EXCEPT !.consumer_ts = consumer_ts]
         ELSE r : r \in @}]

\* ---- StreetlampStateRepository
\* the latest of the device's readings, the rejected ones (kept as alarms)
\* counted in
LatestRows_with_rejected(d, dev_eui) ==
    LET mine == {r \in d.streetlamp_states \cup d.streetlamp_alarms :
                    r.dev_eui = dev_eui}
    IN  {r \in mine : \A o \in mine : o.time <= r.time}

\* the rows find_latest_by_dev_eui selects: time = max(time) of the device
LatestRows(d, dev_eui) ==
    LET mine == {r \in d.streetlamp_states : r.dev_eui = dev_eui}
    IN  {r \in mine : \A o \in mine : o.time <= r.time}

\* the rows find_oldest_by_dev_eui selects: time = min(time) of the device
OldestRows(d, dev_eui) ==
    LET mine == {r \in d.streetlamp_states : r.dev_eui = dev_eui}
    IN  {r \in mine : \A o \in mine : r.time <= o.time}

\* scalar_one_or_none() raises MultipleResultsFound on more than one row
ScalarRaises(rows) == Cardinality(rows) > 1
\* scalar_one_or_none(): the row, or None
scalar_one_or_none(rows) == IF rows = {} THEN None ELSE CHOOSE r \in rows : TRUE

\* an insert that a unique deduplication_id would turn into a no-op
sstate_insert_unique_deduplication_id(d, ss) ==
    IF \E r \in d.streetlamp_states : r.deduplication_id = ss.deduplication_id
    THEN d
    ELSE [d EXCEPT !.streetlamp_states =
            @ \cup {[id |-> NextId(@),
                     deduplication_id |-> ss.deduplication_id,
                     time |-> ss.time, dev_eui |-> ss.dev_eui,
                     dev_voltage |-> ss.dev_voltage,
                     dev_current |-> ss.dev_current,
                     dev_energy_out |-> ss.dev_energy_out,
                     dev_energy_in |-> ss.dev_energy_in,
                     dev_power |-> ss.dev_power,
                     dev_frequency |-> ss.dev_frequency,
                     dev_status_on |-> ss.dev_status_on]}]

\* StreetlampStateRepository.insert: the table with the new row
sstate_insert(d, ss) ==
    [d EXCEPT !.streetlamp_states =
        @ \cup {[id |-> NextId(@), deduplication_id |-> ss.deduplication_id,
                 time |-> ss.time, dev_eui |-> ss.dev_eui,
                 dev_voltage |-> ss.dev_voltage,
                 dev_current |-> ss.dev_current,
                 dev_energy_out |-> ss.dev_energy_out,
                 dev_energy_in |-> ss.dev_energy_in,
                 dev_power |-> ss.dev_power,
                 dev_frequency |-> ss.dev_frequency,
                 dev_status_on |-> ss.dev_status_on]}]

\* _make_alarm: the alarm snapshots the reading's metrics
make_alarm(ss, atype, severity) ==
    [time |-> ss.time, atype |-> atype, severity |-> severity,
     cleared |-> FALSE, dev_eui |-> ss.dev_eui,
     dev_voltage |-> ss.dev_voltage, dev_current |-> ss.dev_current,
     dev_energy_out |-> ss.dev_energy_out,
     dev_energy_in |-> ss.dev_energy_in, dev_power |-> ss.dev_power,
     dev_frequency |-> ss.dev_frequency,
     dev_status_on |-> ss.dev_status_on]

\* StreetlampAlarmRepository.insert
salarm_insert(d, sal) ==
    [d EXCEPT !.streetlamp_alarms =
        @ \cup {[id |-> NextId(@)] @@ sal}]

\* ---------------------------------------------- StreetlampStateService.create
\* validation thresholds, in units of 0.0001
min_valid_value == 1
max_valid_value == 10000000
\* the power limit written ten times too high
max_power_tenfold == 10 * 950000
max_power == 950000
max_frequency == 650000
\* energy counter units per hour
max_ecr == 100000

\* the model instance create builds from the request and the decoded data
MakeState(ssc) ==
    LET sds == decode_state_data(ssc.data)
    IN  [deduplication_id |-> ssc.deduplication_id, time |-> ssc.time,
         dev_eui |-> ssc.dev_eui, dev_voltage |-> sds.voltage,
         dev_current |-> sds.current, dev_energy_out |-> sds.energy_out,
         dev_energy_in |-> sds.energy_in, dev_power |-> sds.power,
         dev_frequency |-> sds.frequency, dev_status_on |-> sds.status_on]

\* the range check without its math.isnan(x)
OutOfRange_without_isnan(x) ==
    FLess(x, min_valid_value) \/ FGreater(x, max_valid_value)

\* math.isnan(x) or x < min_valid_value or x > max_valid_value
OutOfRange(x) ==
    IsNaN(x) \/ FLess(x, min_valid_value) \/ FGreater(x, max_valid_value)

\* rule 1: any of voltage, current, power, frequency is invalid
InvalidValue(ss) ==
    \/ OutOfRange(ss.dev_voltage)
    \/ OutOfRange(ss.dev_current)
    \/ OutOfRange(ss.dev_power)
    \/ OutOfRange(ss.dev_frequency)

\* (ss.time - ls.time).total_seconds() // 3600, then 1 if 0
EcrHours(ss, ls) ==
    LET t == (ss.time - ls.time) \div SecondsPerHour
    IN  IF t = 0 THEN 1 ELSE t

\* the rate compared with >= instead of >
OverEnergy_not_strict(ss, ls) ==
    LET t == EcrHours(ss, ls)
        diff == ss.dev_energy_in - ls.dev_energy_in
    IN  IF t > 0 THEN diff >= max_ecr * t ELSE diff <= max_ecr * t

\* (ss.dev_energy_in - ls.dev_energy_in) / t > max_ecr, t a non-zero integer
OverEnergy(ss, ls) ==
    LET t == EcrHours(ss, ls)
        diff == ss.dev_energy_in - ls.dev_energy_in
    IN  IF t > 0 THEN diff > max_ecr * t ELSE diff < max_ecr * t

\* create: [db: the store afterwards, ret: the new id or None,
\*          raised: an exception left the call (the store is as it was)]
create(d, ssc) ==
    IF ~DecodeOk(ssc.data) THEN [db |-> d, ret |-> None, raised |-> TRUE]
    ELSE
    LET ss == MakeState(ssc)
        reject(atype, severity) ==
            [db |-> salarm_insert(d, make_alarm(ss, atype, severity)),
             ret |-> None, raised |-> FALSE]
        latest == LatestRows(d, ss.dev_eui)
        ls == scalar_one_or_none(latest)
        inserted == sstate_insert(d, ss)
    IN  IF InvalidValue(ss) THEN reject("INVALID_VALUE", "MINOR")
        ELSE IF FGreater(ss.dev_power, max_power)
            THEN reject("OVER_POWER", "CRITICAL")
        ELSE IF FGreater(ss.dev_frequency, max_frequency)
            THEN reject("OVER_FREQUENCY", "CRITICAL")
        ELSE IF ScalarRaises(latest)
            THEN [db |-> d, ret |-> None, raised |-> TRUE]
        ELSE IF latest # {} /\ OverEnergy(ss, ls)
            THEN reject("OVER_ENERGY", "MAJOR")
        ELSE [db |-> update_producer(inserted,
                        StreamName("hourly", ssc.dev_eui),
                        round_to_hour(ssc.time)),
              ret |-> NextId(d.streetlamp_states), raised |-> FALSE]

\* ------------------------------------------------------------ rollup pulls
\* ON CONFLICT (bucket, dev_eui) DO NOTHING
on_conflict_do_nothing(tgt, g) ==
    IF \E r \in tgt : r.bucket = g.bucket /\ r.dev_eui = g.dev_eui
    THEN tgt
    ELSE tgt \cup {[id |-> NextId(tgt)] @@ g}

\* INSERT ... ON CONFLICT (bucket, dev_eui) DO UPDATE SET the seven columns
on_conflict_do_update(tgt, g) ==
    IF \E r \in tgt : r.bucket = g.bucket /\ r.dev_eui = g.dev_eui
    THEN {IF r.bucket = g.bucket /\ r.dev_eui = g.dev_eui
          THEN [id |-> r.id] @@ g ELSE r : r \in tgt}
    ELSE tgt \cup {[id |-> NextId(tgt)] @@ g}

RECURSIVE Upsert(_, _)
\* the selected groups, ordered by bucket, inserted or updated one by one
Upsert(tgt, groups) ==
    IF groups = {} THEN tgt
    ELSE LET g == CHOOSE x \in groups : \A y \in groups : x.bucket <= y.bucket
         IN  Upsert(on_conflict_do_update(tgt, g), groups \ {g})

\* the group rows of HourlyStreetlampStateRepository.pull: readings of the
\* device with time BETWEEN t0 AND t1, grouped by date_trunc('hour', time);
\* the energy columns are kept in hundredths, which makes "/ 100.0" exact
HourlyGroups(d, dev_eui, t0, t1) ==
    LET sel == {r \in d.streetlamp_states :
                    r.dev_eui = dev_eui /\ t0 <= r.time /\ r.time <= t1}
        keys == {date_trunc("hour", r.time) : r \in sel}
        grp(k) == {r \in sel : date_trunc("hour", r.time) = k}
        tmin(k) == SetMin({r.time : r \in grp(k)})
        tmax(k) == SetMax({r.time : r \in grp(k)})
    IN  {[bucket |-> date_trunc("hour", tmin(k)),
          dev_eui |-> dev_eui,
          voltage |-> AvgField(grp(k), "dev_voltage"),
          current |-> AvgField(grp(k), "dev_current"),
          energy_out |-> SetMax({r.dev_energy_out : r \in grp(k)})
                            - SetMin({r.dev_energy_out : r \in grp(k)}),
          energy_in |-> SetMax({r.dev_energy_in : r \in grp(k)})
                            - SetMin({r.dev_energy_in : r \in grp(k)}),
          power |-> AvgField(grp(k), "dev_power"),
          frequency |-> AvgField(grp(k), "dev_frequency"),
          on_time |-> (Cardinality({r \in grp(k) : r.dev_status_on})
                            * (tmax(k) - tmin(k)))
                        \div Cardinality(grp(k))] : k \in keys}

\* the group rows of the daily, weekly and monthly pull: source rollup rows
\* of the device with bucket BETWEEN t0 AND t1, grouped by date_trunc(unit)
RollupGroups(src, unit, dev_eui, t0, t1) ==
    LET sel == {r \in src :
                    r.dev_eui = dev_eui /\ t0 <= r.bucket /\ r.bucket <= t1}
        keys == {date_trunc(unit, r.bucket) : r \in sel}
        grp(k) == {r \in sel : date_trunc(unit, r.bucket) = k}
    IN  {[bucket |-> date_trunc(unit, SetMin({r.bucket : r \in grp(k)})),
          dev_eui |-> dev_eui,
          voltage |-> AvgField(grp(k), "voltage"),
          current |-> AvgField(grp(k), "current"),
          energy_out |-> SumField(grp(k), "energy_out"),
          energy_in |-> SumField(grp(k), "energy_in"),
          power |-> AvgField(grp(k), "power"),
          frequency |-> AvgField(grp(k), "frequency"),
          on_time |-> SumField(grp(k), "on_time")] : k \in keys}

\* each pull: [db: the store afterwards, rowcount: rows inserted or updated]
hourly_pull(d, dev_eui, t0, t1) ==
    LET gs == HourlyGroups(d, dev_eui, t0, t1)
    IN  [db |-> [d EXCEPT !.hourly_streetlamp_states = Upsert(@, gs)],
         rowcount |-> Cardinality(gs)]

\* the hourly rows grouped by the hour instead of the day
daily_pull_by_hour(d, dev_eui, t0, t1) ==
    LET gs == RollupGroups(d.hourly_streetlamp_states, "hour", dev_eui, t0, t1)
    IN  [db |-> [d EXCEPT !.daily_streetlamp_states = Upsert(@, gs)],
         rowcount |-> Cardinality(gs)]

daily_pull(d, dev_eui, t0, t1) ==
    LET gs == RollupGroups(d.hourly_streetlamp_states, "day", dev_eui, t0, t1)
    IN  [db |-> [d EXCEPT !.daily_streetlamp_states = Upsert(@, gs)],
         rowcount |-> Cardinality(gs)]

weekly_pull(d, dev_eui, t0, t1) ==
    LET gs == RollupGroups(d.daily_streetlamp_states, "week", dev_eui, t0, t1)
    IN  [db |-> [d EXCEPT !.weekly_streetlamp_states = Upsert(@, gs)],
         rowcount |-> Cardinality(gs)]

monthly_pull(d, dev_eui, t0, t1) ==
    LET gs == RollupGroups(d.daily_streetlamp_states, "month", dev_eui, t0, t1)
    IN  [db |-> [d EXCEPT !.monthly_streetlamp_states = Upsert(@, gs)],
         rowcount |-> Cardinality(gs)]

\* ------------------------------------------------------ aggregation stages
\* StreetlampRepository.find_all(): the registered devices, in table order
Streetlamps == <<"a1", "b2">>

\* the rows a rollup repository's find_oldest_by_dev_eui selects
OldestRollupRows(table, dev_eui) ==
    LET mine == {r \in table : r.dev_eui = dev_eui}
    IN  {r \in mine : \A o \in mine : r.bucket <= o.bucket}

NoRange == [some |-> FALSE, t0 |-> None, t1 |-> None, raised |-> FALSE]
RangeRaised == [some |-> FALSE, t0 |-> None, t1 |-> None, raised |-> TRUE]

\* what the four _get_*_range share: ss_str is find_by_name's result, oldest
\* the rows of the source's find_oldest_by_dev_eui and seed the t0 they give
StreamRange(ss_str, oldest, seed) ==
    IF ss_str = {} THEN NoRange
    ELSE LET st == CHOOSE r \in ss_str : TRUE
         IN  IF st.producer_ts = None THEN NoRange
             ELSE IF st.consumer_ts = None /\ ScalarRaises(oldest)
                 THEN RangeRaised
             ELSE IF st.consumer_ts = None /\ oldest = {} THEN NoRange
             ELSE LET t0 == IF st.consumer_ts = None THEN seed
                            ELSE st.consumer_ts
                      t1 == st.producer_ts
                  IN  IF t0 = t1 THEN NoRange
                      ELSE [some |-> TRUE, t0 |-> t0, t1 |-> t1,
                            raised |-> FALSE]

get_hourly_range(d, strname, dev_eui) ==
    LET oldest == OldestRows(d, dev_eui)
    IN  StreamRange(find_by_name(d, strname), oldest,
            IF oldest = {} THEN None
            ELSE round_to_hour(scalar_one_or_none(oldest).time))

get_daily_range(d, strname, dev_eui) ==
    LET oldest == OldestRollupRows(d.hourly_streetlamp_states, dev_eui)
    IN  StreamRange(find_by_name(d, strname), oldest,
            IF oldest = {} THEN None ELSE scalar_one_or_none(oldest).bucket)

get_weekly_range(d, strname, dev_eui) ==
    LET oldest == OldestRollupRows(d.daily_streetlamp_states, dev_eui)
    IN  StreamRange(find_by_name(d, strname), oldest,
            IF oldest = {} THEN None ELSE scalar_one_or_none(oldest).bucket)

get_monthly_range(d, strname, dev_eui) ==
    LET oldest == OldestRollupRows(d.daily_streetlamp_states, dev_eui)
    IN  StreamRange(find_by_name(d, strname), oldest,
            IF oldest = {} THEN None ELSE scalar_one_or_none(oldest).bucket)

\* one device of StreetlampHourlyAggregationService.aggregate (the body of
\* the for loop): [db, nr: rows written, raised]
hourly_device(d, dev_eui) ==
    LET strname == StreamName("hourly", dev_eui)
        rg == get_hourly_range(d, strname, dev_eui)
        p == hourly_pull(d, dev_eui, rg.t0, rg.t1)
    IN  IF rg.raised THEN [db |-> d, nr |-> 0, raised |-> TRUE]
        ELSE IF ~rg.some THEN [db |-> d, nr |-> 0, raised |-> FALSE]
        ELSE [db |-> update_producer(
                        update_consumer(p.db, strname, rg.t1),
                        StreamName("daily", dev_eui), round_to_day(rg.t1)),
              nr |-> p.rowcount, raised |-> FALSE]

\* the daily stage moving the producer_ts of its own stream
daily_device_own_producer(d, dev_eui) ==
    LET strname == StreamName("daily", dev_eui)
        rg == get_daily_range(d, strname, dev_eui)
        p == daily_pull(d, dev_eui, rg.t0, rg.t1)
    IN  IF rg.raised THEN [db |-> d, nr |-> 0, raised |-> TRUE]
        ELSE IF ~rg.some THEN [db |-> d, nr |-> 0, raised |-> FALSE]
        ELSE [db |-> update_producer(
                        update_producer(
                            update_consumer(p.db, strname, rg.t1),
                            strname, round_to_week(rg.t1)),
                        StreamName("monthly", dev_eui),
                        round_to_month(rg.t1)),
              nr |-> p.rowcount, raised |-> FALSE]

daily_device(d, dev_eui) ==
    LET strname == StreamName("daily", dev_eui)
        rg == get_daily_range(d, strname, dev_eui)
        p == daily_pull(d, dev_eui, rg.t0, rg.t1)
    IN  IF rg.raised THEN [db |-> d, nr |-> 0, raised |-> TRUE]
        ELSE IF ~rg.some THEN [db |-> d, nr |-> 0, raised |-> FALSE]
        ELSE [db |-> update_producer(
                        update_producer(
                            update_consumer(p.db, strname, rg.t1),
                            StreamName("weekly", dev_eui),
                            round_to_week(rg.t1)),
                        StreamName("monthly", dev_eui),
                        round_to_month(rg.t1)),
              nr |-> p.rowcount, raised |-> FALSE]

weekly_device(d, dev_eui) ==
    LET strname == StreamName("weekly", dev_eui)
        rg == get_weekly_range(d, strname, dev_eui)
        p == weekly_pull(d, dev_eui, rg.t0, rg.t1)
    IN  IF rg.raised THEN [db |-> d, nr |-> 0, raised |-> TRUE]
        ELSE IF ~rg.some THEN [db |-> d, nr |-> 0, raised |-> FALSE]
        ELSE [db |-> update_consumer(p.db, strname, rg.t1),
              nr |-> p.rowcount, raised |-> FALSE]

monthly_device(d, dev_eui) ==
    LET strname == StreamName("monthly", dev_eui)
        rg == get_monthly_range(d, strname, dev_eui)
        p == monthly_pull(d, dev_eui, rg.t0, rg.t1)
    IN  IF rg.raised THEN [db |-> d, nr |-> 0, raised |-> TRUE]
        ELSE IF ~rg.some THEN [db |-> d, nr |-> 0, raised |-> FALSE]
        ELSE [db |-> update_consumer(p.db, strname, rg.t1),
              nr |-> p.rowcount, raised |-> FALSE]

\* the loop body of the stage of a resolution
StageDevice(res, d, dev_eui) ==
    CASE res = "hourly" -> hourly_device(d, dev_eui)
      [] res = "daily" -> daily_device(d, dev_eui)
      [] res = "weekly" -> weekly_device(d, dev_eui)
      [] res = "monthly" -> monthly_device(d, dev_eui)

RECURSIVE AggregateFrom(_, _, _, _)
\* for s in find_all(), from the i-th device on, tnr rows written so far; an
\* exception leaves the loop at once
AggregateFrom(res, d, i, tnr) ==
    IF i > Len(Streetlamps) THEN [db |-> d, ret |-> tnr, raised |-> FALSE]
    ELSE LET r == StageDevice(res, d, Streetlamps[i])
         IN  IF r.raised THEN [db |-> d, ret |-> None, raised |-> TRUE]
             ELSE AggregateFrom(res, r.db, i + 1, tnr + r.nr)

\* aggregate() of the stage of a resolution: [db, ret: total rows, raised]
aggregate(res, d) == AggregateFrom(res, d, 1, 0)

\* ------------------------------------------------------------------ inputs
\* a StreetlampDeviceState
Sds(v, i, p, f, ein, on) ==
    [voltage |-> v, current |-> i, energy_out |-> ein \div 2,
     energy_in |-> ein, power |-> p, frequency |-> f, status_on |-> on]

\* a StreetlampStateCreate as the network server posts it
Ssc(dedup, t, dev_eui, data) ==
    [deduplication_id |-> dedup, time |-> t, dev_eui |-> dev_eui,
     data |-> data]

\* Mon 1 Jan 07:10, 07:40, 08:10 and Tue 6 Feb 10:00
ReadingTimes == {25800, 27600, 29400, 3146400}

\* what a healthy lamp's meter reports at a time: the energy counter grows by
\* 1000 units an hour, the lamp is on before 08:00 of the first day
MeterAt(t) ==
    Sds(2300000 + (t \div 600) * 1000, 4000, 900000, 600000,
        (t * 10) \div 36, t < 8 * SecondsPerHour)

\* uplinks of registered lamps carrying a healthy meter reading
MeterInputs ==
    {Ssc(t, t, "a1", encode_state_data(MeterAt(t))) : t \in ReadingTimes}
    \cup {Ssc(t, t, "b2", encode_state_data(MeterAt(t))) :
            t \in {25800, 3146400}}

\* <<voltage, current, power, frequency>> of the uplinks that cover the
\* validation rules: all within the limits (power 95, frequency 65), then one
\* or several of them invalid or above a limit
ValidationMetrics ==
    {<<2396000, 4000, 950000, 650000>>,
     <<NaN, 4000, 2000000, 650001>>,
     <<2396000, 0, 10000000, 650000>>,
     <<2396000, 4000, 10000001, 650000>>,
     <<2396000, 4000, 950000, NaN>>,
     <<2396000, 4000, 950001, 650000>>,
     <<2396000, 4000, 10000000, 650001>>,
     <<2396000, 4000, 950000, 650001>>}

\* each of them at two times an hour apart, with an energy counter at 1000,
\* or 100000 or 100001 above that
ValidationInputs ==
    {Ssc(t, t, "a1",
         encode_state_data(Sds(m[1], m[2], m[3], m[4], ein, TRUE))) :
        t \in {25800, 29400},
        m \in ValidationMetrics,
        ein \in {1000, 101000, 101001}}

\* messages on the stream: healthy readings of two hours and two lamps, an
\* over-power reading, a payload cut short, and an uplink without data
StreamInputs ==
    {Ssc(t, t, dev, encode_state_data(MeterAt(t))) :
        t \in {25800, 29400}, dev \in {"a1"}}
    \cup {Ssc(25800, 25800, "b2", encode_state_data(MeterAt(25800)))}
    \cup {Ssc(27600, 27600, "a1",
              encode_state_data(Sds(2396000, 4000, 2000000, 600000, 0, TRUE)))}
    \cup {Ssc(27600, 27600, "b2",
              Slice(encode_state_data(MeterAt(27600)), 0, 40))}
    \cup {Ssc(27600, 27600, "b2", <<>>)}

\* ------------------------------------------------------------------- state
VARIABLES
    db,         \* the committed PostgreSQL tables
    queue,      \* the Redis stream nl:streetlamp_states: entries [id, value]
    sent,       \* number of entries ever added to the stream
    pc,         \* where the background task proc_streetlamp_states is
    tx,         \* the tables as the task's open transaction sees them
    entries,    \* the entries xread returned that are still to be handled
    n,          \* the batch's count of created readings
    since,      \* time.time() - t, in seconds
    last_id_seen,       \* the cursor of proc_streetlamp_states
    batch_last_id_seen, \* the cursor inside proc_streetlamp_state_batch
    deleted,    \* the entries XDEL has removed from the stream
    peer,       \* a second worker process: where it is, the entries it read
    last        \* the operation the last step performed, and its outcome

vars == <<db, queue, sent, pc, tx, entries, n, since, last_id_seen,
          batch_last_id_seen, deleted, peer, last>>

\* the cursors and the log of deleted entries
cursors == <<last_id_seen, batch_last_id_seen, deleted>>

\* proc_streetlamp_states: 15 * 60 seconds between passes, sleeps of 30
AggInterval == 15 * 60
SleepSeconds == 30
\* every elapsed time above the interval behaves alike
SinceCap == AggInterval + SleepSeconds
\* xread(count=batch_size)
batch_size == 1000

NoSsc == Ssc(None, None, "", <<>>)

\* the table a stage's pull writes
TargetTable(res, d) ==
    CASE res = "hourly" -> d.hourly_streetlamp_states
      [] res = "daily" -> d.daily_streetlamp_states
      [] res = "weekly" -> d.weekly_streetlamp_states
      [] res = "monthly" -> d.monthly_streetlamp_states

\* what a step did: the operation, the stream entry and request it handled,
\* what it returned, whether an exception left it
Op(op, id, ssc, ret, raised) ==
    [op |-> op, id |-> id, ssc |-> ssc, ret |-> ret, raised |-> raised,
     added |-> 0]

\* a stage's step: ret rows inserted or updated, added of them inserted
StageOp(res, before, r) ==
    [op |-> res, id |-> 0, ssc |-> NoSsc,
     ret |-> IF r.raised THEN None ELSE r.ret, raised |-> r.raised,
     added |-> Cardinality(TargetTable(res, r.db))
                - Cardinality(TargetTable(res, before))]

\* t = 0.0: the first comparison finds the interval long elapsed
Init ==
    /\ db = EmptyDb
    /\ queue = <<>>
    /\ sent = 0
    /\ pc = "batch"
    /\ tx = EmptyDb
    /\ entries = <<>>
    /\ n = 0
    /\ since = SinceCap
    /\ last_id_seen = 0
    /\ batch_last_id_seen = 0
    /\ deleted = {}
    /\ peer = [pc |-> "batch", entries |-> <<>>]
    /\ last = Op("init", 0, NoSsc, None, FALSE)

\* ---- the HTTP endpoint: enqueue_create XADDs the posted body
Enqueue(ssc) ==
    /\ sent < MaxMsgs
    /\ sent' = sent + 1
    /\ queue' = Append(queue, [id |-> sent + 1, value |-> ssc])
    /\ last' = Op("enqueue", sent + 1, ssc, None, FALSE)
    /\ UNCHANGED <<db, pc, tx, entries, n, since, cursors, peer>>

\* ---- proc_streetlamp_state_batch
\* a read that leaves out the entries another consumer holds unacknowledged,
\* as XREADGROUP with a consumer group delivers them
xreadgroup(q, id, count) ==
    LET held == {entries[i].id : i \in 1..Len(entries)}
                    \cup {peer.entries[i].id : i \in 1..Len(peer.entries)}
        free == SelectSeq(q, LAMBDA e : e.id > id /\ e.id \notin held)
    IN  SubSeq(free, 1, IF Len(free) < count THEN Len(free) ELSE count)

\* XREAD COUNT count STREAMS nl:streetlamp_states id: the first count
\* entries whose id is greater than the given one
xread(q, id, count) ==
    LET after == SelectSeq(q, LAMBDA e : e.id > id)
    IN  SubSeq(after, 1, IF Len(after) < count THEN Len(after) ELSE count)

\* the call binds the parameter last_id_seen to the caller's cursor;
\* session.begin(), then xread from it
BatchRead ==
    /\ pc = "batch"
    /\ pc' = "items"
    /\ tx' = db
    /\ batch_last_id_seen' = last_id_seen
    /\ entries' = xread(queue, last_id_seen, batch_size)
    /\ n' = 0
    /\ last' = Op("xread", 0, NoSsc, None, FALSE)
    /\ UNCHANGED <<db, queue, sent, since, last_id_seen, deleted, peer>>

\* XDEL nl:streetlamp_states item_id
xdel(q, item_id) == SelectSeq(q, LAMBDA e : e.id # item_id)

\* no handler: the exception leaves "while True" and the task ends
except_Exception_missing(resume) == "stopped"
\* "except Exception" of proc_streetlamp_state_batch and of run_agg_process:
\* the exception is logged and the function returns, so the loop of
\* proc_streetlamp_states resumes at the statement after the call
except_Exception(resume) == resume

\* leaving "async with session.begin()" by an exception: kept instead of
\* rolled back
rollback_keeps_writes(committed, open) == open
\* leaving "async with session.begin()" by an exception rolls back what the
\* transaction wrote: the committed tables stay
rollback(committed, open) == committed

\* the loop body without "if ssc.data": create is called for every message
BatchItem_without_data_test ==
    /\ pc = "items"
    /\ entries # <<>>
    /\ LET e == Head(entries)
           ssc == e.value
           r == create(tx, ssc)
       IN  /\ batch_last_id_seen' = e.id
           /\ IF r.raised
              THEN /\ tx' = db
                   /\ entries' = <<>>
                   /\ pc' = except_Exception("timer")
                   /\ last' = Op("create", e.id, ssc, None, TRUE)
                   /\ UNCHANGED <<queue, deleted, n>>
              ELSE /\ tx' = r.db
                   /\ n' = IF r.ret # None THEN n + 1 ELSE n
                   /\ queue' = xdel(queue, e.id)
                   /\ deleted' = deleted \cup {e}
                   /\ entries' = Tail(entries)
                   /\ last' = Op("create", e.id, ssc, r.ret, FALSE)
                   /\ UNCHANGED pc
    /\ UNCHANGED <<db, sent, since, last_id_seen, peer>>

\* one turn of the for loop. An exception of create is no RedisError: it
\* leaves the loop and the "async with" block, which rolls the transaction
\* back, and the outer handler logs it. The finally clause sets the local
\* cursor in every case; the function returns nothing
BatchItem ==
    /\ pc = "items"
    /\ entries # <<>>
    /\ LET e == Head(entries)
           ssc == e.value
           r == create(tx, ssc)
       IN  /\ batch_last_id_seen' = e.id
           /\ IF ssc.data = <<>>
              THEN /\ queue' = xdel(queue, e.id)
                   /\ deleted' = deleted \cup {e}
                   /\ entries' = Tail(entries)
                   /\ last' = Op("skip", e.id, ssc, None, FALSE)
                   /\ UNCHANGED <<tx, n, pc>>
              ELSE IF r.raised
              THEN /\ tx' = db
                   /\ entries' = <<>>
                   /\ pc' = except_Exception("timer")
                   /\ last' = Op("create", e.id, ssc, None, TRUE)
                   /\ UNCHANGED <<queue, deleted, n>>
              ELSE /\ tx' = r.db
                   /\ n' = IF r.ret # None THEN n + 1 ELSE n
                   /\ queue' = xdel(queue, e.id)
                   /\ deleted' = deleted \cup {e}
                   /\ entries' = Tail(entries)
                   /\ last' = Op("create", e.id, ssc, r.ret, FALSE)
                   /\ UNCHANGED pc
    /\ UNCHANGED <<db, sent, since, last_id_seen, peer>>

\* a statement of serv.create fails on the store (connection lost, timeout):
\* the exception is no RedisError, so it passes the inner handler (the
\* finally clause still runs), skips the xdel and leaves the "async with"
\* block, which rolls the batch's transaction back
BatchStoreFailure ==
    /\ pc = "items"
    /\ entries # <<>>
    /\ Head(entries).value.data # <<>>
    /\ batch_last_id_seen' = Head(entries).id
    /\ db' = rollback(db, tx)
    /\ tx' = db'
    /\ entries' = <<>>
    /\ pc' = except_Exception("timer")
    /\ last' = Op("store_failure", Head(entries).id, Head(entries).value,
                  None, TRUE)
    /\ UNCHANGED <<queue, sent, n, since, last_id_seen, deleted, peer>>

\* the loop is over: the "async with" block commits
BatchCommit ==
    /\ pc = "items"
    /\ entries = <<>>
    /\ db' = tx
    /\ pc' = "timer"
    /\ last' = Op("commit", 0, NoSsc, n, FALSE)
    /\ UNCHANGED <<queue, sent, tx, entries, n, since, cursors, peer>>

\* ---- proc_streetlamp_states, after the batch
\* else: await asyncio.sleep(30)
Sleep ==
    /\ pc = "timer"
    /\ ~(since > AggInterval)
    /\ since' = IF since + SleepSeconds > SinceCap THEN SinceCap
                ELSE since + SleepSeconds
    /\ pc' = "batch"
    /\ last' = Op("sleep", 0, NoSsc, None, FALSE)
    /\ UNCHANGED <<db, queue, sent, tx, entries, n, cursors, peer>>

\* the pass started on every turn of the loop, whatever time has elapsed
AggBegin_without_timer ==
    /\ pc = "timer"
    /\ pc' = "hourly"
    /\ tx' = db
    /\ last' = Op("begin", 0, NoSsc, None, FALSE)
    /\ UNCHANGED <<db, queue, sent, entries, n, since, cursors, peer>>

\* the pass started as a task of its own while the batch is still running
AggBegin_not_awaited ==
    /\ pc \in {"items", "timer"}
    /\ since > AggInterval
    /\ pc' = "hourly"
    /\ last' = Op("begin", 0, NoSsc, None, FALSE)
    /\ UNCHANGED <<db, queue, sent, tx, entries, n, since, cursors, peer>>

\* if (time.time() - t) > 15 * 60: run_agg_process() opens its transaction
AggBegin ==
    /\ pc = "timer"
    /\ since > AggInterval
    /\ pc' = "hourly"
    /\ tx' = db
    /\ last' = Op("begin", 0, NoSsc, None, FALSE)
    /\ UNCHANGED <<db, queue, sent, entries, n, since, cursors, peer>>

\* a stage of run_agg_process that others follow. An exception leaves the
\* "async with" block (rollback), is logged, and the caller sets t
AggStage(res, next) ==
    /\ pc = res
    /\ LET r == aggregate(res, tx)
       IN  IF r.raised
           THEN /\ tx' = db
                /\ pc' = except_Exception("batch")
                /\ since' = 0
                /\ last' = StageOp(res, tx, r)
           ELSE /\ tx' = r.db
                /\ pc' = next
                /\ last' = StageOp(res, tx, r)
                /\ UNCHANGED since
    /\ UNCHANGED <<db, queue, sent, entries, n, cursors, peer>>

AggHourly == AggStage("hourly", "daily")
\* the daily stage followed by the monthly one, the weekly one left out
AggDaily_then_monthly == AggStage("daily", "monthly")
AggDaily == AggStage("daily", "weekly")
AggWeekly == AggStage("weekly", "monthly")

\* the last stage; the block commits, run_agg_process returns, t = time.time()
AggMonthly ==
    /\ pc = "monthly"
    /\ LET r == aggregate("monthly", tx)
       IN  /\ db' = IF r.raised THEN db ELSE r.db
           /\ tx' = db'
           /\ last' = StageOp("monthly", tx, r)
           /\ pc' = IF r.raised THEN except_Exception("batch") ELSE "batch"
    /\ since' = 0
    /\ UNCHANGED <<queue, sent, entries, n, cursors, peer>>

\* ---- a store failure inside a stage of run_agg_process
\* the stream range and the pull of a stage, for one device
RangeOf(res, d, dev_eui) ==
    CASE res = "hourly" ->
            get_hourly_range(d, StreamName(res, dev_eui), dev_eui)
      [] res = "daily" ->
            get_daily_range(d, StreamName(res, dev_eui), dev_eui)
      [] res = "weekly" ->
            get_weekly_range(d, StreamName(res, dev_eui), dev_eui)
      [] res = "monthly" ->
            get_monthly_range(d, StreamName(res, dev_eui), dev_eui)

PullOf(res, d, dev_eui, t0, t1) ==
    CASE res = "hourly" -> hourly_pull(d, dev_eui, t0, t1)
      [] res = "daily" -> daily_pull(d, dev_eui, t0, t1)
      [] res = "weekly" -> weekly_pull(d, dev_eui, t0, t1)
      [] res = "monthly" -> monthly_pull(d, dev_eui, t0, t1)

\* the statements of a loop body at which the store can fail
FailureSteps(res) ==
    IF res \in {"hourly", "daily"}
    THEN {"range", "pull", "update_consumer", "update_producer"}
    ELSE {"range", "pull", "update_consumer"}

\* the transaction's tables when the statement k of a device's loop body
\* fails: what the statements before it have written
FailedAt(res, d, dev_eui, k) ==
    LET rg == RangeOf(res, d, dev_eui)
        pulled == PullOf(res, d, dev_eui, rg.t0, rg.t1).db
    IN  CASE k = "range" -> d
          [] k = "pull" -> d
          [] k = "update_consumer" -> pulled
          [] k = "update_producer" ->
                update_consumer(pulled, StreamName(res, dev_eui), rg.t1)

RECURSIVE ProcessedUpTo(_, _, _)
\* the loop of a stage after its first i devices
ProcessedUpTo(res, d, i) ==
    IF i = 0 THEN [db |-> d, raised |-> FALSE]
    ELSE LET b == ProcessedUpTo(res, d, i - 1)
             r == StageDevice(res, b.db, Streetlamps[i])
         IN  IF b.raised \/ r.raised THEN [db |-> d, raised |-> TRUE]
             ELSE [db |-> r.db, raised |-> FALSE]

\* a statement of a stage fails on the store (connection lost, timeout):
\* the exception leaves the stage and the "async with" block, the pass is
\* rolled back and logged, and the caller sets t
AggStoreFailure ==
    /\ pc \in Resolutions
    /\ \E i \in 1..Len(Streetlamps), k \in FailureSteps(pc) :
        \E b \in {ProcessedUpTo(pc, tx, i - 1)} :
        \E rg \in {RangeOf(pc, b.db, Streetlamps[i])} :
        \E open \in {FailedAt(pc, b.db, Streetlamps[i], k)} :
            /\ ~b.raised
            /\ ~rg.raised
            /\ k # "range" => rg.some
            /\ db' = rollback(db, open)
            /\ tx' = db'
            /\ last' = StageOp(pc, tx, [db |-> open, raised |-> TRUE])
    /\ pc' = except_Exception("batch")
    /\ since' = 0
    /\ UNCHANGED <<queue, sent, entries, n, cursors, peer>>

Next ==
    \/ \E ssc \in StreamInputs : Enqueue(ssc)
    \/ BatchRead
    \/ BatchItem
    \/ BatchStoreFailure
    \/ BatchCommit
    \/ Sleep
    \/ AggBegin
    \/ AggHourly
    \/ AggDaily
    \/ AggWeekly
    \/ AggMonthly
    \/ AggStoreFailure

Spec == Init /\ [][Next]_vars

\* ---- the loop under the scheduling of the event loop: the background task
\* is resumed after every await, so it never stays for ever at one place of
\* "while True" (between two changes of place a batch handles the finitely
\* many entries it has read)
LoopMoves ==
    \E p \in {"batch", "items", "timer"} \cup Resolutions : pc' = p

\* a failure of the store is transient: from some batch on the statements
\* of create are answered again
StoreRecovers == <>[](last.op # "store_failure")

SpecLive == Spec /\ WF_pc(LoopMoves) /\ StoreRecovers

\* ---- two worker processes on the same stream and the same store: each runs
\* proc_streetlamp_states; the second one's batches are followed here
RECURSIVE BatchFrom(_, _)
\* the for loop of a batch over the entries es, on the tables d: the tables
\* it leaves, whether create raised, how many entries were handled and
\* deleted before
BatchFrom(d, es) ==
    IF es = <<>> THEN [db |-> d, raised |-> FALSE, done |-> 0]
    ELSE LET ssc == Head(es).value
             r == IF ssc.data = <<>>
                  THEN [db |-> d, ret |-> None, raised |-> FALSE]
                  ELSE create(d, ssc)
         IN  IF r.raised THEN [db |-> d, raised |-> TRUE, done |-> 0]
             ELSE [BatchFrom(r.db, Tail(es)) EXCEPT !.done = @ + 1]

\* the second worker's xread: its cursor is '0-0' on every call
PeerRead ==
    /\ peer.pc = "batch"
    /\ peer' = [pc |-> "items", entries |-> xread(queue, 0, batch_size)]
    /\ last' = Op("peer_xread", 0, NoSsc, None, FALSE)
    /\ UNCHANGED <<db, queue, sent, pc, tx, entries, n, since, cursors>>

\* the second worker's loop over its entries and its commit, scheduled while
\* the first worker has no transaction open
PeerBatch ==
    /\ peer.pc = "items"
    /\ pc \notin {"items"} \cup Resolutions
    /\ \E b \in {BatchFrom(db, peer.entries)} :
        \E gone \in {{peer.entries[i] : i \in 1..b.done}} :
            /\ db' = IF b.raised THEN rollback(db, b.db) ELSE b.db
            /\ queue' = SelectSeq(queue, LAMBDA e : e \notin gone)
            /\ deleted' = deleted \cup gone
            /\ last' = Op("peer_batch", 0, NoSsc, b.done, b.raised)
    /\ tx' = db'
    /\ peer' = [pc |-> "batch", entries |-> <<>>]
    /\ UNCHANGED <<sent, pc, entries, n, since, last_id_seen,
                   batch_last_id_seen>>

NextTwo ==
    \/ \E ssc \in StreamInputs : Enqueue(ssc)
    \/ BatchRead
    \/ BatchItem
    \/ BatchCommit
    \/ PeerRead
    \/ PeerBatch

SpecTwo == Init /\ [][NextTwo]_vars

\* ---- the services called directly, as the repository's tests call them
Created(d) ==
    Cardinality(d.streetlamp_states) + Cardinality(d.streetlamp_alarms)

\* await serv.create(ssc) on the caller's session
ServiceCreate(ssc, max) ==
    /\ Created(db) < max
    /\ LET r == create(db, ssc)
       IN  /\ db' = r.db
           /\ last' = Op("create", 0, ssc, r.ret, r.raised)
    /\ UNCHANGED <<queue, sent, pc, tx, entries, n, since, cursors, peer>>

\* await <stage>.aggregate() on the caller's session
ServiceAggregate(res) ==
    /\ LET r == aggregate(res, db)
       IN  /\ db' = r.db
           /\ last' = StageOp(res, db, r)
    /\ UNCHANGED <<queue, sent, pc, tx, entries, n, since, cursors, peer>>

HourlyAggregate == ServiceAggregate("hourly")
DailyAggregate == ServiceAggregate("daily")
WeeklyAggregate == ServiceAggregate("weekly")
MonthlyAggregate == ServiceAggregate("monthly")

NextService ==
    \/ \E ssc \in MeterInputs : ServiceCreate(ssc, MaxCalls)
    \/ HourlyAggregate
    \/ DailyAggregate
    \/ WeeklyAggregate
    \/ MonthlyAggregate

SpecService == Init /\ [][NextService]_vars

\* ---- the loop with a Redis that can fail on XDEL
\* messages replayed: at most this many are sent
MaxReplayed == 2
\* XDEL fails only while the open transaction holds fewer rows than this
MaxStored == 3

\* healthy readings of lamp a1 in two hours, an over-power reading, a
\* payload cut short, and an uplink without data
ReplayInputs ==
    {Ssc(t, t, "a1", encode_state_data(MeterAt(t))) : t \in {25800, 29400}}
    \cup {Ssc(27600, 27600, "a1",
              encode_state_data(Sds(2396000, 4000, 2000000, 600000, 0, TRUE)))}
    \cup {Ssc(27600, 27600, "b2",
              Slice(encode_state_data(MeterAt(27600)), 0, 40))}
    \cup {Ssc(27600, 27600, "b2", <<>>)}

ReplayEnqueue ==
    /\ sent < MaxReplayed
    /\ \E ssc \in ReplayInputs : Enqueue(ssc)

\* the handler that lets the RedisError of xdel leave the batch
except_RedisError_missing(resume) == "timer"
\* "except redis.RedisError": the failure is logged and the for loop goes on
\* with the next item
except_RedisError(resume) == resume

\* one turn of the for loop in which xdel raises redis.RedisError: create
\* has run on the open transaction, the entry stays on the stream, the
\* handler logs, the finally clause sets the local cursor
BatchXdelFailure ==
    /\ pc = "items"
    /\ entries # <<>>
    /\ \E e \in {Head(entries)} :
       \E r \in {IF e.value.data = <<>>
                 THEN [db |-> tx, ret |-> None, raised |-> FALSE]
                 ELSE create(tx, e.value)} :
            /\ ~r.raised
            /\ Created(tx) < MaxStored
            /\ batch_last_id_seen' = e.id
            /\ pc' = except_RedisError("items")
            /\ tx' = IF pc' = "items" THEN r.db ELSE rollback(db, r.db)
            /\ n' = IF r.ret # None THEN n + 1 ELSE n
            /\ entries' = IF pc' = "items" THEN Tail(entries) ELSE <<>>
            /\ last' = Op("xdel_failure", e.id, e.value, r.ret, FALSE)
    /\ UNCHANGED <<db, queue, sent, since, last_id_seen, deleted, peer>>

NextReplay ==
    \/ ReplayEnqueue
    \/ BatchRead
    \/ BatchItem
    \/ BatchXdelFailure
    \/ BatchCommit
    \/ Sleep
    \/ AggBegin
    \/ AggHourly
    \/ AggDaily
    \/ AggWeekly
    \/ AggMonthly

SpecReplay == Init /\ [][NextReplay]_vars

\* ---- create over readings that differ in device, hour and energy counter
\* within the static limits: the counter at 1000 or 100001 above it
EnergyInputs ==
    {Ssc(t + ein, t, dev,
         encode_state_data(Sds(2396000, 4000, 950000, 600000, ein, TRUE))) :
        t \in {25800, 29400}, dev \in {"a1", "b2"}, ein \in {1000, 101001}}

EnergyCreate == \E ssc \in EnergyInputs : ServiceCreate(ssc, MaxCalls)

NextEnergy == EnergyCreate

SpecEnergy == Init /\ [][NextEnergy]_vars

\* ---- create alone, over the inputs of the validation rules
ValidateCreate == \E ssc \in ValidationInputs : ServiceCreate(ssc, MaxValidated)

NextValidate == ValidateCreate

SpecValidate == Init /\ [][NextValidate]_vars

\* ---- whole passes between service-level creates
\* run_agg_process(): the four stages in one transaction, each on what the
\* stage before it has written; an exception of a stage leaves the "async
\* with" block, which rolls the pass back, and the last stage's return
\* commits it
Pass ==
    /\ \E h \in {aggregate("hourly", db)} :
       \E d \in {IF h.raised THEN h ELSE aggregate("daily", h.db)} :
       \E w \in {IF d.raised THEN d ELSE aggregate("weekly", d.db)} :
       \E m \in {IF w.raised THEN w ELSE aggregate("monthly", w.db)} :
            /\ db' = IF m.raised THEN rollback(db, m.db) ELSE m.db
            /\ last' = Op("pass", 0, NoSsc, None, m.raised)
    /\ UNCHANGED <<queue, sent, pc, tx, entries, n, since, cursors, peer>>

PassCreate == \E ssc \in MeterInputs : ServiceCreate(ssc, MaxCalls)

NextPass ==
    \/ PassCreate
    \/ Pass

SpecPass == Init /\ [][NextPass]_vars

\* ---- DashboardService: the energy summaries
\* A Python float is an exact fraction [num, den] in lowest terms, den > 0;
\* a rounded result is an integer count of the last decimal kept.
MaxDevices == 3

Abs(x) == IF x < 0 THEN -x ELSE x

RECURSIVE Gcd(_, _)
Gcd(a, b) == IF b = 0 THEN a ELSE Gcd(b, a % b)

Rat(num, den) ==
    LET g == Gcd(Abs(num), Abs(den))
        s == IF den < 0 THEN -1 ELSE 1
    IN  [num |-> s * (num \div g), den |-> s * (den \div g)]

FromInt(i) == [num |-> i, den |-> 1]

\* x * y, the common factors taken out before the products
RatMul(x, y) ==
    LET g1 == Gcd(Abs(x.num), y.den)
        g2 == Gcd(Abs(y.num), x.den)
    IN  [num |-> (x.num \div g1) * (y.num \div g2),
         den |-> (x.den \div g2) * (y.den \div g1)]

RatSub(x, y) == Rat(x.num * y.den - y.num * x.den, x.den * y.den)

\* x / y: ZeroDivisionError when y is 0
truediv(x, y) ==
    IF y.num = 0 THEN [raised |-> TRUE, val |-> FromInt(0)]
    ELSE [raised |-> FALSE, val |-> RatMul(x, Rat(y.den, y.num))]

Returned(x) == [raised |-> FALSE, val |-> x]

\* round(x, ndigits), ties to the even neighbour; the result counts units of
\* 10 ** -ndigits
round(x, ndigits) ==
    LET s == RatMul(x, FromInt(IF ndigits = 1 THEN 10 ELSE 100))
        q == s.num \div s.den
        r == s.num - q * s.den
    IN  IF 2 * r < s.den THEN q
        ELSE IF 2 * r > s.den THEN q + 1
        ELSE IF q % 2 = 0 THEN q ELSE q + 1

\* energy_to_co2: round(6.99e-4 * (energy / 1000.0), 1)
energy_to_co2(energy) ==
    LET etco2 == Rat(699, 1000000)
    IN  round(RatMul(etco2, truediv(energy, FromInt(1000)).val), 1)

\* a StreetlampStateSummary, or no summary at all (summ is None)
NoSummary == [none |-> TRUE, ndevices |-> 0, energy_in |-> 0, on_time |-> 0]
Summaries ==
    {NoSummary}
    \cup {[none |-> FALSE, ndevices |-> nd, energy_in |-> ei, on_time |-> ot] :
            nd \in 0..MaxDevices, ei \in {0, 125, 250, 500, 2000},
            ot \in {0, 1800, 3600, 36000, 3600000}}

\* total = k * (summ.on_time / 3600.0)
Baseline(k, summ) ==
    RatMul(FromInt(k), truediv(FromInt(summ.on_time), FromInt(3600)).val)

\* the average without its guard: energy_in / ndevices
get_energy_consumption_summary_unguarded(summ) ==
    IF summ.none THEN [raised |-> FALSE, total_in_kw |-> 0, avg_in_watts |-> 0]
    ELSE LET avg == truediv(FromInt(summ.energy_in), FromInt(summ.ndevices))
         IN  [raised |-> avg.raised,
              total_in_kw |->
                round(truediv(FromInt(summ.energy_in), FromInt(1000)).val, 2),
              avg_in_watts |-> round(avg.val, 2)]

\* _get_energy_consumption_summary
get_energy_consumption_summary(summ) ==
    IF summ.none THEN [raised |-> FALSE, total_in_kw |-> 0, avg_in_watts |-> 0]
    ELSE LET avg == IF summ.ndevices # 0
                    THEN truediv(FromInt(summ.energy_in),
                                 FromInt(summ.ndevices))
                    ELSE Returned(FromInt(0))
         IN  [raised |-> avg.raised,
              total_in_kw |->
                round(truediv(FromInt(summ.energy_in), FromInt(1000)).val, 2),
              avg_in_watts |-> round(avg.val, 2)]

\* what _get_energy_savings_summary (k = 250) and
\* _get_energy_dimming_savings_summary (k = 90) share
SavingsSummary(k, summ) ==
    IF summ.none THEN [raised |-> FALSE, percentage |-> 0, avg_in_watts |-> 0]
    ELSE LET total == Baseline(k, summ)
             savings == RatSub(total, FromInt(summ.energy_in))
             pct == IF total.num # 0
                    THEN truediv(RatMul(FromInt(100), savings), total)
                    ELSE Returned(FromInt(0))
             avg == IF summ.ndevices # 0
                    THEN truediv(savings, FromInt(summ.ndevices))
                    ELSE Returned(FromInt(0))
         IN  [raised |-> pct.raised \/ avg.raised,
              percentage |-> round(pct.val, 1),
              avg_in_watts |-> round(avg.val, 2)]

get_energy_savings_summary(summ) == SavingsSummary(250, summ)
get_energy_dimming_savings_summary(summ) == SavingsSummary(90, summ)

\* _get_energy_co2_savings_summary
get_energy_co2_savings_summary(summ) ==
    IF summ.none THEN [raised |-> FALSE, total_in_ton |-> 0, avg_in_ton |-> 0]
    ELSE LET savings == RatSub(Baseline(250, summ), FromInt(summ.energy_in))
             avg == IF summ.ndevices # 0
                    THEN truediv(savings, FromInt(summ.ndevices))
                    ELSE Returned(FromInt(0))
         IN  [raised |-> avg.raised,
              total_in_ton |-> energy_to_co2(savings),
              avg_in_ton |-> energy_to_co2(avg.val)]

\* _get_energy_summary
get_energy_summary(summ) ==
    [consumption |-> get_energy_consumption_summary(summ),
     savings |-> get_energy_savings_summary(summ),
     dimming_savings |-> get_energy_dimming_savings_summary(summ),
     co2_savings |-> get_energy_co2_savings_summary(summ)]

EnergySummary(summ) ==
    /\ LET es == get_energy_summary(summ)
       IN  last' = [summ |-> summ, summary |-> es]
                   @@ Op("summary", 0, NoSsc, None,
                         \/ es.consumption.raised
                         \/ es.savings.raised
                         \/ es.dimming_savings.raised
                         \/ es.co2_savings.raised)
    /\ UNCHANGED <<db, queue, sent, pc, tx, entries, n, since, cursors, peer>>

NextSummary == \E summ \in Summaries : EnergySummary(summ)

SpecSummary == Init /\ [][NextSummary]_vars

\* ---- the codec on its own: device states whose seven fields all differ,
\* encoded and decoded again (tests/test_services.py does it for one state)
DeviceStates ==
    {[voltage |-> v, current |-> i, energy_out |-> eo, energy_in |-> ei,
      power |-> p, frequency |-> f, status_on |-> on] :
        v \in {NaN, 2396000, 1}, i \in {4000, 2}, eo \in {500, 3},
        ei \in {1000, 4}, p \in {950000, 5}, f \in {600000, NaN},
        on \in BOOLEAN}

\* decode_state_data(encode_state_data(sds)); struct.unpack raises on a
\* slice that is not eight bytes long
CodecRoundTrip(sds) ==
    /\ last' = [sds |-> sds,
                decoded |-> decode_state_data(encode_state_data(sds))]
               @@ Op("codec", 0, Ssc(None, None, "", encode_state_data(sds)),
                     None, ~DecodeOk(encode_state_data(sds)))
    /\ UNCHANGED <<db, queue, sent, pc, tx, entries, n, since, cursors, peer>>

NextCodec == \E sds \in DeviceStates : CodecRoundTrip(sds)

SpecCodec == Init /\ [][NextCodec]_vars

\* ---- the transport encoding of the payload: base64.b64encode and
\* base64.b64decode (validate=False). A character of the alphabet is kept by
\* the group of up to three bytes it encodes and its position in the group
Char(g, j) == [k |-> "data", g |-> g, j |-> j]
Pad == [k |-> "pad", g |-> <<>>, j |-> 0]
\* a character outside the alphabet, such as '!' or a line feed
Junk == [k |-> "junk", g |-> <<>>, j |-> 0]

\* base64.b64encode: four characters for each group of three bytes, the last
\* group of one or two bytes filled up with '='
b64encode(b) ==
    [c \in 1..(4 * ((Len(b) + 2) \div 3)) |->
        LET g == Slice(b, 3 * ((c - 1) \div 4), 3 * ((c - 1) \div 4) + 3)
            j == (c - 1) % 4
        IN  IF j <= Len(g) THEN Char(g, j) ELSE Pad]

\* a byte that characters of different groups decode to
Garbled == -3

\* the byte that the m-th character of a quad completes (m = 2, 3, 4)
QuadByte(quad, m) ==
    IF /\ \A i \in 1..m : quad[i].g = quad[1].g /\ quad[i].j = i - 1
       /\ Len(quad[1].g) >= m - 1
    THEN quad[1].g[m - 1]
    ELSE Garbled

\* binascii.a2b_base64(s, strict_mode=False). Characters outside the
\* alphabet are skipped. A '=' ends the parse when the open quad has at least
\* two characters and, with the '=' seen since the last data character, four
\* are reached. Each data character from the second of its quad on completes
\* a byte. An open quad at the end of the input raises binascii.Error
a2b_base64(s) ==
    LET t == SelectSeq(s, LAMBDA c : c.k # "junk")
        DataBefore(i) == Cardinality({h \in 1..(i - 1) : t[h].k = "data"})
        PadsAt(i) == Cardinality({h \in 1..i :
                        \A m \in h..i : t[m].k = "pad"})
        Stops == {i \in 1..Len(t) :
                    /\ t[i].k = "pad"
                    /\ (DataBefore(i) % 4) >= 2
                    /\ (DataBefore(i) % 4) + PadsAt(i) >= 4}
        end == IF Stops = {} THEN Len(t) ELSE SetMin(Stops)
        data == SelectSeq(SubSeq(t, 1, end), LAMBDA c : c.k = "data")
        nbytes == 3 * (Len(data) \div 4)
                    + (IF (Len(data) % 4) >= 2 THEN (Len(data) % 4) - 1
                       ELSE 0)
    IN  [raised |-> Stops = {} /\ (Len(data) % 4) # 0,
         bytes |-> [b \in 1..nbytes |->
                        QuadByte(SubSeq(data, 4 * ((b - 1) \div 3) + 1,
                                        4 * ((b - 1) \div 3)
                                            + ((b - 1) % 3) + 2),
                                 ((b - 1) % 3) + 2)]]

b64decode(s) == a2b_base64(s)

\* decode_state_data on the text as it is transported: b64decode raises, or
\* struct.unpack or x[0] raises on a short slice, or the state is returned
decode_text(s) ==
    IF b64decode(s).raised \/ ~DecodeOk(b64decode(s).bytes)
    THEN [raised |-> TRUE, ret |-> None]
    ELSE [raised |-> FALSE, ret |-> decode_state_data(b64decode(s).bytes)]

\* the device state whose payload is cut
CutStates ==
    {[voltage |-> 2396000, current |-> 4000, energy_out |-> 500,
      energy_in |-> 1000, power |-> 950000, frequency |-> 600000,
      status_on |-> TRUE]}

\* where a character is inserted in the 88 characters of a text: at the
\* start, inside the first quad, in the middle, inside the last quads, at
\* the end
InsertPlaces == {0, 2, 3, 44, 75, 88}

\* s with the character c inserted after the first i characters
InsertAt(s, i, c) == SubSeq(s, 1, i) \o <<c>> \o SubSeq(s, i + 1, Len(s))

\* decode_state_data of a valid text with its last k characters cut off
DecodeTruncated ==
    /\ \E sds \in CutStates :
            \E text \in {b64encode(encode_state_data(sds))} :
            \E k \in 1..Len(text) :
            \E r \in {decode_text(SubSeq(text, 1, Len(text) - k))} :
                last' = [input |-> "truncated", cut |-> k, sds |-> sds,
                         decoded |-> r.ret]
                        @@ Op("decode", 0, NoSsc, None, r.raised)
    /\ UNCHANGED <<db, queue, sent, pc, tx, entries, n, since, cursors, peer>>

\* decode_state_data of the text of a payload cut by k bytes before it was
\* encoded for transport
DecodeTruncatedBlob ==
    /\ \E sds \in CutStates :
            \E blob \in {encode_state_data(sds)} :
            \E k \in 1..Len(blob) :
            \E r \in {decode_text(b64encode(SubSeq(blob, 1, Len(blob) - k)))} :
                last' = [input |-> "truncated_blob", cut |-> k, sds |-> sds,
                         decoded |-> r.ret]
                        @@ Op("decode", 0, NoSsc, None, r.raised)
    /\ UNCHANGED <<db, queue, sent, pc, tx, entries, n, since, cursors, peer>>

\* decode_state_data of a text that is not base64: a valid text with a
\* character outside the alphabet in it, or a padding character misplaced
DecodeNotBase64 ==
    /\ \E sds \in CutStates :
            \E text \in {b64encode(encode_state_data(sds))} :
            \E i \in InsertPlaces, c \in {Junk, Pad} :
            \E r \in {decode_text(InsertAt(text, i, c))} :
                last' = [input |-> IF c = Junk THEN "junk" ELSE "pad", cut |-> i,
                         sds |-> sds, decoded |-> r.ret]
                        @@ Op("decode", 0, NoSsc, None, r.raised)
    /\ UNCHANGED <<db, queue, sent, pc, tx, entries, n, since, cursors, peer>>

NextDecode ==
    \/ DecodeTruncated
    \/ DecodeTruncatedBlob
    \/ DecodeNotBase64

SpecDecode == Init /\ [][NextDecode]_vars

\* ------------------------------------------------------------------ claims
\* C1: in every reachable state, whatever the order in which accepted readings
\* and aggregation passes interleave, every watermark with a non-null
\* consumer_ts has consumer_ts <= producer_ts.
C1_ConsumerNotAfterProducer ==
    \A r \in db.stream_states :
        r.consumer_ts # None => r.consumer_ts <= r.producer_ts

\* the metrics the request of a step carried
Metrics(op) == decode_state_data(op.ssc.data)

\* a metric the validation calls invalid: NaN or outside [0.0001, 1000]
Invalid(x) == x = NaN \/ x < 1 \/ x > 10000000

\* the alarm snapshots the reading of the request
Snapshot(a, op) ==
    /\ a.time = op.ssc.time
    /\ a.dev_eui = op.ssc.dev_eui
    /\ a.dev_voltage = Metrics(op).voltage
    /\ a.dev_current = Metrics(op).current
    /\ a.dev_energy_out = Metrics(op).energy_out
    /\ a.dev_energy_in = Metrics(op).energy_in
    /\ a.dev_power = Metrics(op).power
    /\ a.dev_frequency = Metrics(op).frequency
    /\ a.dev_status_on = Metrics(op).status_on

\* the step added exactly one alarm, of this type and severity, and nothing
\* else: no reading, no change to a watermark or to a rollup table
OnlyAlarm(atype, severity) ==
    /\ db.streetlamp_alarms \subseteq db'.streetlamp_alarms
    /\ Cardinality(db'.streetlamp_alarms \ db.streetlamp_alarms) = 1
    /\ \A a \in db'.streetlamp_alarms \ db.streetlamp_alarms :
            /\ a.atype = atype
            /\ a.severity = severity
            /\ Snapshot(a, last')
    /\ [db' EXCEPT !.streetlamp_alarms = {}]
            = [db EXCEPT !.streetlamp_alarms = {}]

\* C2: a create that rejects its reading inserts exactly one alarm carrying a
\* snapshot of the reading's metrics, inserts no reading and leaves every
\* watermark as it was; a reading with valid voltage, current and frequency
\* and power in (95, 1000] yields exactly one OVER_POWER/CRITICAL alarm and
\* nothing else.
C2_RejectedYieldsOneAlarm ==
    [][last'.op = "create" /\ ~last'.raised =>
        /\ last'.ret = None =>
                \E t \in {<<"INVALID_VALUE", "MINOR">>,
                          <<"OVER_POWER", "CRITICAL">>,
                          <<"OVER_FREQUENCY", "CRITICAL">>,
                          <<"OVER_ENERGY", "MAJOR">>} : OnlyAlarm(t[1], t[2])
        /\ (/\ ~Invalid(Metrics(last').voltage)
            /\ ~Invalid(Metrics(last').current)
            /\ ~Invalid(Metrics(last').frequency)
            /\ Metrics(last').power > 950000
            /\ Metrics(last').power <= 10000000) =>
                /\ last'.ret = None
                /\ OnlyAlarm("OVER_POWER", "CRITICAL")]_vars

\* a reading with power exactly 1000 and the other metrics valid was rejected
\* when an alarm was already stored
C2_Witness ==
    /\ last.op = "create"
    /\ last.ret = None
    /\ ~last.raised
    /\ Metrics(last).power = 10000000
    /\ ~Invalid(Metrics(last).voltage)
    /\ Cardinality(db.streetlamp_alarms) = 2
    /\ \E a \in db.streetlamp_alarms :
            a.id = 2 /\ a.atype = "OVER_POWER" /\ a.dev_power = 10000000

\* C4: the validation rules are tried in the order 1 (INVALID_VALUE/MINOR),
\* 2 (OVER_POWER/CRITICAL), 3 (OVER_FREQUENCY/CRITICAL), 4 (OVER_ENERGY/
\* MAJOR) and the first that matches decides alone: at most one alarm per
\* reading, and a reading matching rule 1 yields INVALID_VALUE whatever its
\* power, frequency and energy.
C4_FirstMatchingRuleDecides ==
    [][last'.op = "create" /\ ~last'.raised =>
        LET m == Metrics(last')
            rule1 == \/ Invalid(m.voltage) \/ Invalid(m.current)
                     \/ Invalid(m.power) \/ Invalid(m.frequency)
            rule2 == m.power > 950000
            rule3 == m.frequency > 650000
            accepted ==
                /\ last'.ret # None
                /\ db'.streetlamp_alarms = db.streetlamp_alarms
        IN  /\ Cardinality(db'.streetlamp_alarms)
                    <= Cardinality(db.streetlamp_alarms) + 1
            /\ rule1 => OnlyAlarm("INVALID_VALUE", "MINOR")
            /\ ~rule1 /\ rule2 => OnlyAlarm("OVER_POWER", "CRITICAL")
            /\ ~rule1 /\ ~rule2 /\ rule3 =>
                    OnlyAlarm("OVER_FREQUENCY", "CRITICAL")
            /\ ~rule1 /\ ~rule2 /\ ~rule3 =>
                    \/ accepted
                    \/ /\ OnlyAlarm("OVER_ENERGY", "MAJOR")
                       /\ \E r \in db.streetlamp_states :
                                r.dev_eui = last'.ssc.dev_eui]_vars

\* a reading with voltage NaN, power 200, frequency above 65 and an energy
\* jump above the limit got INVALID_VALUE
C4_Witness ==
    /\ last.op = "create"
    /\ Metrics(last).voltage = NaN
    /\ Metrics(last).power = 2000000
    /\ Metrics(last).frequency = 650001
    /\ Metrics(last).energy_in = 101001
    /\ \E r \in db.streetlamp_states :
            r.dev_energy_in = 1000 /\ r.time = last.ssc.time - 3600
    /\ \E a \in db.streetlamp_alarms :
            /\ a.atype = "INVALID_VALUE"
            /\ a.severity = "MINOR"
            /\ a.time = last.ssc.time
            /\ a.dev_power = 2000000

\* C5: the energy-rate rule compares strictly: with a stored reading of the
\* device one hour earlier, a reading whose energy_in is 100001 above it is
\* rejected with OVER_ENERGY/MAJOR and not stored, one whose energy_in is
\* exactly 100000 above it is accepted and stored.
C5_EnergyRateStrict ==
    [][last'.op = "create" /\ ~last'.raised =>
        LET m == Metrics(last')
            prior == LatestRows(db, last'.ssc.dev_eui)
        IN  \A ls \in prior :
                (/\ prior = {ls}
                 /\ ls.time = last'.ssc.time - 3600
                 /\ ~Invalid(m.voltage) /\ ~Invalid(m.current)
                 /\ ~Invalid(m.power) /\ ~Invalid(m.frequency)
                 /\ m.power <= 950000
                 /\ m.frequency <= 650000) =>
                    /\ m.energy_in - ls.dev_energy_in = 100001 =>
                            /\ last'.ret = None
                            /\ OnlyAlarm("OVER_ENERGY", "MAJOR")
                    /\ m.energy_in - ls.dev_energy_in = 100000 =>
                            /\ last'.ret # None
                            /\ db'.streetlamp_alarms = db.streetlamp_alarms
                            /\ \E r \in db'.streetlamp_states
                                        \ db.streetlamp_states :
                                    /\ r.id = last'.ret
                                    /\ r.time = last'.ssc.time
                                    /\ r.dev_energy_in = m.energy_in]_vars

\* a reading at energy_in 101000, an hour after one at 1000, was stored
C5_Witness ==
    /\ last.op = "create"
    /\ last.ret = 2
    /\ Metrics(last).energy_in = 101000
    /\ \E r \in db.streetlamp_states :
            r.id = 1 /\ r.dev_energy_in = 1000
                /\ r.time = last.ssc.time - 3600
    /\ \E r \in db.streetlamp_states :
            r.id = 2 /\ r.dev_energy_in = 101000 /\ r.time = last.ssc.time

\* the watermark rows of a resolution and device
Watermarks(d, res, dev_eui) ==
    {w \in d.stream_states : w.name = <<res, dev_eui>>}

\* C3: a create that accepts its reading inserts exactly one reading holding
\* the decoded values, inserts no alarm, and sets the producer_ts of the
\* device's hourly watermark to the reading's time truncated to the hour,
\* creating the watermark with a null consumer_ts if there was none; no other
\* watermark is touched.
C3_AcceptedStoresReadingAndProducer ==
    [][last'.op = "create" /\ ~last'.raised /\ last'.ret # None =>
        LET ssc == last'.ssc
            m == Metrics(last')
            new == db'.streetlamp_states \ db.streetlamp_states
            old == Watermarks(db, "hourly", ssc.dev_eui)
        IN  /\ db.streetlamp_states \subseteq db'.streetlamp_states
            /\ Cardinality(new) = 1
            /\ \A r \in new :
                    /\ r.id = last'.ret
                    /\ r.time = ssc.time
                    /\ r.dev_eui = ssc.dev_eui
                    /\ r.deduplication_id = ssc.deduplication_id
                    /\ r.dev_voltage = m.voltage
                    /\ r.dev_current = m.current
                    /\ r.dev_energy_out = m.energy_out
                    /\ r.dev_energy_in = m.energy_in
                    /\ r.dev_power = m.power
                    /\ r.dev_frequency = m.frequency
                    /\ r.dev_status_on = m.status_on
            /\ db'.streetlamp_alarms = db.streetlamp_alarms
            /\ Cardinality(Watermarks(db', "hourly", ssc.dev_eui)) = 1
            /\ \A w \in Watermarks(db', "hourly", ssc.dev_eui) :
                    /\ w.producer_ts = ssc.time - (ssc.time % 3600)
                    /\ old = {} => w.consumer_ts = None
                    /\ \A o \in old :
                            o.consumer_ts = w.consumer_ts /\ o.id = w.id
            /\ db'.stream_states \ Watermarks(db', "hourly", ssc.dev_eui)
                    = db.stream_states \ old
            /\ [db' EXCEPT !.streetlamp_states = {}, !.stream_states = {}]
                    = [db EXCEPT !.streetlamp_states = {},
                                 !.stream_states = {}]]_vars

\* the 08:10 reading of a lamp was accepted when its hourly watermark had
\* been consumed through an earlier hour and other watermarks existed
C3_Witness ==
    /\ last.op = "create"
    /\ last.ret # None
    /\ last.ssc.time = 29400
    /\ \E w \in Watermarks(db, "hourly", last.ssc.dev_eui) :
            w.producer_ts = 28800 /\ w.consumer_ts = 25200
    /\ Watermarks(db, "daily", last.ssc.dev_eui) # {}
    /\ \E r \in db.streetlamp_states : r.id = last.ret /\ r.time = 29400

\* C6: for each of the four stages, running aggregate() again, with no reading
\* ingested and no watermark changed since the first run, writes no row and
\* leaves every rollup row and every watermark as the first run left them.
C6_SecondRunIsNoOp ==
    \A res \in Resolutions :
        last.op = res /\ ~last.raised =>
            /\ ~aggregate(res, db).raised
            /\ aggregate(res, db).ret = 0
            /\ aggregate(res, db).db = db

\* the monthly stage has just written a row
C6_Witness ==
    /\ last.op = "monthly"
    /\ ~last.raised
    /\ last.ret >= 1
    /\ db.monthly_streetlamp_states # {}
    /\ db.hourly_streetlamp_states # {}

\* the range a stage finds pending for a device
Pending(res, d, dev_eui) ==
    CASE res = "hourly" ->
            get_hourly_range(d, StreamName(res, dev_eui), dev_eui)
      [] res = "daily" ->
            get_daily_range(d, StreamName(res, dev_eui), dev_eui)
      [] res = "weekly" ->
            get_weekly_range(d, StreamName(res, dev_eui), dev_eui)
      [] res = "monthly" ->
            get_monthly_range(d, StreamName(res, dev_eui), dev_eui)

\* the groups a stage's pull selects for a device over a range
Selected(res, d, dev_eui, t0, t1) ==
    CASE res = "hourly" -> HourlyGroups(d, dev_eui, t0, t1)
      [] res = "daily" ->
            RollupGroups(d.hourly_streetlamp_states, "day", dev_eui, t0, t1)
      [] res = "weekly" ->
            RollupGroups(d.daily_streetlamp_states, "week", dev_eui, t0, t1)
      [] res = "monthly" ->
            RollupGroups(d.daily_streetlamp_states, "month", dev_eui, t0, t1)

SameKey(a, b) == a.bucket = b.bucket /\ a.dev_eui = b.dev_eui

SameColumns(a, b) ==
    /\ a.voltage = b.voltage
    /\ a.current = b.current
    /\ a.energy_out = b.energy_out
    /\ a.energy_in = b.energy_in
    /\ a.power = b.power
    /\ a.frequency = b.frequency
    /\ a.on_time = b.on_time

\* C7: in every reachable state each rollup table holds at most one row per
\* (bucket, device); a pull producing a group for a (bucket, device) that has
\* a row overwrites the seven other columns of that row and adds no row.
C7_OneRowPerBucketAndDevice ==
    /\ [](\A res \in Resolutions :
            \A a, b \in TargetTable(res, db) : SameKey(a, b) => a = b)
    /\ [][\A res \in Resolutions :
            last'.op = res /\ ~last'.raised =>
                \A i \in 1..Len(Streetlamps) :
                    LET rg == Pending(res, db, Streetlamps[i])
                        gs == Selected(res, db, Streetlamps[i], rg.t0, rg.t1)
                    IN  rg.some =>
                          \A g \in gs :
                            /\ \E r \in TargetTable(res, db') :
                                    SameKey(r, g) /\ SameColumns(r, g)
                            /\ \A o \in TargetTable(res, db) :
                                    SameKey(o, g) =>
                                        \E r \in TargetTable(res, db') :
                                            /\ r.id = o.id
                                            /\ SameKey(r, g)
                                            /\ SameColumns(r, g)]_vars

\* an hourly run has updated a row that was there, and the 07:00 row of a
\* lamp now averages its 07:10 and 07:40 readings
C7_Witness ==
    /\ last.op = "hourly"
    /\ ~last.raised
    /\ last.ret > last.added
    /\ \E r \in db.hourly_streetlamp_states :
            /\ r.bucket = 25200
            /\ r.voltage = (MeterAt(25800).voltage + MeterAt(27600).voltage)
                                \div 2
            /\ \E o \in db.hourly_streetlamp_states :
                    o.dev_eui = r.dev_eui /\ o.bucket = 28800 /\ o.id > r.id

\* C8: when the hourly stage processes a device through t1, the device's
\* daily producer_ts becomes t1 truncated to the day; when the daily stage
\* processes a device through t1, its weekly producer_ts becomes t1 truncated
\* to the week and its monthly producer_ts t1 truncated to the month; the
\* weekly and monthly stages write no producer_ts.
C8_WatermarkChaining ==
    [][\A res \in Resolutions :
        last'.op = res /\ ~last'.raised =>
            LET Producers(d, rs) ==
                    {<<w.name, w.producer_ts>> :
                        w \in {x \in d.stream_states : x.name[1] \in rs}}
                day(t) == t - (t % 86400)
                week(t) == day(t) - ((t \div 86400) % 7) * 86400
                month(t) ==
                    86400 * SetMax({k \in {0, 31, 60, 91} : k * 86400 <= t})
                Done(i) ==
                    {w.producer_ts : w \in
                        {x \in Watermarks(db, res, Streetlamps[i]) :
                            \E y \in Watermarks(db', res, Streetlamps[i]) :
                                y.consumer_ts # x.consumer_ts}}
                Set(to, i) ==
                    {w.producer_ts : w \in Watermarks(db', to, Streetlamps[i])}
            IN  /\ res = "hourly" =>
                    /\ \A i \in 1..Len(Streetlamps) : \A t1 \in Done(i) :
                            Set("daily", i) = {day(t1)}
                    /\ Producers(db', {"hourly", "weekly", "monthly"})
                            = Producers(db, {"hourly", "weekly", "monthly"})
                /\ res = "daily" =>
                    /\ \A i \in 1..Len(Streetlamps) : \A t1 \in Done(i) :
                            /\ Set("weekly", i) = {week(t1)}
                            /\ Set("monthly", i) = {month(t1)}
                    /\ Producers(db', {"hourly", "daily"})
                            = Producers(db, {"hourly", "daily"})
                /\ res \in {"weekly", "monthly"} =>
                    Producers(db', Resolutions) = Producers(db, Resolutions)
        ]_vars

\* the daily stage has processed a lamp through Tue 6 Feb 00:00: its weekly
\* producer is Mon 5 Feb and its monthly producer 1 Feb
C8_Witness ==
    /\ last.op = "daily"
    /\ ~last.raised
    /\ \E w \in Watermarks(db, "daily", "a1") :
            w.consumer_ts = 36 * 86400 /\ w.producer_ts = 36 * 86400
    /\ \E w \in Watermarks(db, "weekly", "a1") : w.producer_ts = 35 * 86400
    /\ \E w \in Watermarks(db, "monthly", "a1") : w.producer_ts = 31 * 86400
    /\ \E w \in Watermarks(db, "weekly", "a1") : w.consumer_ts # 35 * 86400

\* C9: an aggregation pass runs the stages in the order hourly, daily,
\* weekly, monthly: a stage starts only when the one before it has finished,
\* no stage runs twice in a pass, and when the pass is over the loop is back
\* at ingestion with its timer reset.
C9_StagesInOrder ==
    [][/\ pc' = "hourly" /\ pc # "hourly" =>
            pc = "timer" /\ last'.op = "begin"
       /\ pc' = "daily" /\ pc # "daily" =>
            pc = "hourly" /\ last'.op = "hourly" /\ ~last'.raised
       /\ pc' = "weekly" /\ pc # "weekly" =>
            pc = "daily" /\ last'.op = "daily" /\ ~last'.raised
       /\ pc' = "monthly" /\ pc # "monthly" =>
            pc = "weekly" /\ last'.op = "weekly" /\ ~last'.raised
       /\ \A res \in Resolutions :
            last'.op = res =>
                /\ pc = res
                /\ pc' # res
                /\ pc' \notin Resolutions => pc' = "batch" /\ since' = 0
                /\ res = "monthly" => pc' = "batch"
                /\ pc' = "batch" => res = "monthly" \/ last'.raised
       /\ pc \in Resolutions /\ pc' # pc => last'.op = pc]_vars

\* a pass that wrote hourly rows is over: the loop is about to read the next
\* batch and no time has passed since the timer was set
C9_Witness ==
    /\ last.op = "monthly"
    /\ ~last.raised
    /\ pc = "batch"
    /\ since = 0
    /\ db.hourly_streetlamp_states # {}
    /\ \E w \in db.stream_states : w.name[1] = "monthly"

\* C10: within a batch every message that was read is deleted from the
\* stream once it has been handled, whether handling succeeded or failed,
\* and a failure on one message does not keep the messages after it in the
\* batch from being handled.
C10_HandledMessageDeleted ==
    [][pc = "items" /\ last'.op \in {"create", "skip"} =>
        /\ \A i \in 1..Len(queue') : queue'[i].id # last'.id
        /\ entries' = Tail(entries)]_vars

\* C11: a batch yields a new cursor equal to the id of the last message it
\* handled, and the next batch reads only messages whose id is greater than
\* it: the cursor never decreases and a message at or below the id the last
\* batch handled last is never read again.
C11_CursorAdvances ==
    [][/\ pc = "items" /\ pc' = "timer" =>
            last_id_seen' = batch_last_id_seen'
       /\ last_id_seen' >= last_id_seen
       /\ last'.op = "xread" =>
            \A i \in 1..Len(entries') :
                entries'[i].id > batch_last_id_seen]_vars

\* the stream holds the entry with this id
InQueue(id) == \E i \in 1..Len(queue) : queue[i].id = id

\* C12: while the loop keeps being scheduled, every message put on the stream
\* is eventually removed from it, whatever its payload (valid, rejected by
\* the validation, or undecodable): no message stays on the stream for ever
\* (an entry is on the stream from its XADD to its XDEL and never comes back,
\* so it is removed exactly when it is off the stream again and again).
C12_EveryMessageEventuallyRemoved ==
    \A id \in 1..MaxMsgs : []<>~InQueue(id)

\* what a store holds about one device: its rollup rows (without their ids)
\* and its watermarks
DeviceView(d, dev_eui) ==
    LET rows(t) == {[k \in DOMAIN r \ {"id"} |-> r[k]] :
                        r \in {x \in t : x.dev_eui = dev_eui}}
    IN  [hourly |-> rows(d.hourly_streetlamp_states),
         daily |-> rows(d.daily_streetlamp_states),
         weekly |-> rows(d.weekly_streetlamp_states),
         monthly |-> rows(d.monthly_streetlamp_states),
         streams |-> {[name |-> w.name, producer_ts |-> w.producer_ts,
                       consumer_ts |-> w.consumer_ts] :
                        w \in {x \in d.stream_states : x.name[2] = dev_eui}}]

\* the devices whose processing by a stage does not fail
Succeeding(res, d) ==
    {dev \in {Streetlamps[i] : i \in 1..Len(Streetlamps)} :
        ~StageDevice(res, d, dev).raised}

RECURSIVE SumNr(_, _, _)
\* the rows a stage writes for the devices of a set
SumNr(res, d, devs) ==
    IF devs = {} THEN 0
    ELSE LET dev == CHOOSE x \in devs : TRUE
         IN  StageDevice(res, d, dev).nr + SumNr(res, d, devs \ {dev})

\* C13: in every aggregate() call a failure on one device does not abort the
\* devices after it: every device whose processing succeeds has its rollup
\* rows and watermark advances in effect after the call, and the call
\* returns the number of rows written for the devices that succeeded.
C13_DeviceFailureIsolated ==
    [][\A res \in Resolutions :
        last'.op = res =>
            /\ \A dev \in Succeeding(res, db) :
                DeviceView(db', dev)
                    = DeviceView(StageDevice(res, db, dev).db, dev)
            /\ last'.ret = SumNr(res, db, Succeeding(res, db))]_vars

\* the watermark of a stream in the committed store: a set, empty when the
\* stream has none
Watermark(res, dev_eui) ==
    {w \in db.stream_states : w.name = StreamName(res, dev_eui)}

\* the committed store holds rollup rows of a stage only together with an
\* advanced consumer_ts of that stage's stream
RowsWithConsumer(res, dev_eui) ==
    (\E r \in TargetTable(res, db) : r.dev_eui = dev_eui) =>
        \E w \in Watermark(res, dev_eui) : w.consumer_ts # None

\* the committed store holds an advanced consumer_ts only together with the
\* producer_ts it gave the next resolution
ConsumerWithNextProducer(dev_eui) ==
    /\ \A w \in Watermark("hourly", dev_eui) :
        w.consumer_ts # None =>
            \E x \in Watermark("daily", dev_eui) :
                x.producer_ts = round_to_day(w.consumer_ts)
    /\ \A w \in Watermark("daily", dev_eui) :
        w.consumer_ts # None =>
            /\ \E x \in Watermark("weekly", dev_eui) :
                x.producer_ts = round_to_week(w.consumer_ts)
            /\ \E x \in Watermark("monthly", dev_eui) :
                x.producer_ts = round_to_month(w.consumer_ts)

\* C14: for every stage and device the upserts of pull, the advance of the
\* stream's consumer_ts and the advance of the next resolution's producer_ts
\* take effect together or not at all: no committed state has the rollup rows
\* without the advanced consumer_ts, or the advanced consumer_ts without the
\* next producer_ts, and a pass interrupted by a failure at any statement
\* leaves the committed store, hence every device's range, as it was.
C14_StageWritesAtomic ==
    /\ [](\A i \in 1..Len(Streetlamps) :
            /\ \A res \in Resolutions : RowsWithConsumer(res, Streetlamps[i])
            /\ ConsumerWithNextProducer(Streetlamps[i]))
    /\ [][\A res \in Resolutions :
            last'.op = res /\ last'.raised =>
                /\ db' = db
                /\ \A i \in 1..Len(Streetlamps) :
                    RangeOf(res, db', Streetlamps[i])
                        = RangeOf(res, db, Streetlamps[i])]_vars

\* a stage failed after it had written rollup rows in its transaction
C14_Witness ==
    /\ last.op \in Resolutions
    /\ last.raised
    /\ last.added > 0
    /\ pc = "batch"

\* the deleted messages that carried data: each of them was given to create
DeletedWithData == {e \in deleted : e.value.data # <<>>}

\* C15: no reading is lost on a store failure during ingestion: once a batch
\* is over, every message that has been deleted from the stream has its
\* outcome, the reading or the alarm, committed in the store (a message whose
\* outcome was not committed is still on the stream for a later batch).
C15_DeletedMessagesCommitted ==
    pc # "items" => Created(db) >= Cardinality(DeletedWithData)

\* C16: the scheduler loop never ends because a component failed: an
\* exception in an ingestion batch brings the loop to its timer check, an
\* exception in a stage of the pass brings it to the next batch with the timer
\* restarted, and whatever has been raised a further batch is read and a
\* further pass begins, for ever.
C16_LoopSurvivesFailures ==
    /\ [][last'.raised =>
            /\ last'.op \in {"create", "store_failure"} => pc' = "timer"
            /\ last'.op \in Resolutions => pc' = "batch" /\ since' = 0
            /\ last'.op \in {"create", "store_failure"} \cup Resolutions]_vars
    /\ []<>(last.op = "xread")
    /\ []<>(last.op = "begin")

\* a stage of the pass has raised and the loop is back at its batch, with
\* messages waiting on the stream
C16_Witness ==
    /\ last.raised
    /\ last.op \in Resolutions
    /\ pc = "batch"
    /\ queue # <<>>

\* C17: decoding an encoded device state gives the state back, field by
\* field, each of the six doubles and the boolean at its own position, and
\* the decoding does not raise.
C17_CodecRoundTrip ==
    last.op = "codec" =>
        /\ ~last.raised
        /\ last.decoded.voltage = last.sds.voltage
        /\ last.decoded.current = last.sds.current
        /\ last.decoded.energy_out = last.sds.energy_out
        /\ last.decoded.energy_in = last.sds.energy_in
        /\ last.decoded.power = last.sds.power
        /\ last.decoded.frequency = last.sds.frequency
        /\ last.decoded.status_on = last.sds.status_on
        /\ Len(last.ssc.data) = 64

\* a state with seven different field values, a NaN among them, has made the
\* round trip
C17_Witness ==
    /\ last.op = "codec"
    /\ last.sds = [voltage |-> 1, current |-> 2, energy_out |-> 3,
                   energy_in |-> 4, power |-> 5, frequency |-> NaN,
                   status_on |-> TRUE]

\* the rows of a source table that fall into a bucket of a device
SourceRows(src, unit, r) ==
    {s \in src : s.dev_eui = r.dev_eui /\ date_trunc(unit, s.bucket) = r.bucket}

\* a rollup row carries the sums of its source rows, each counted once
SumsOf(src, unit, r) ==
    /\ r.energy_in = SumField(SourceRows(src, unit, r), "energy_in")
    /\ r.energy_out = SumField(SourceRows(src, unit, r), "energy_out")
    /\ r.on_time = SumField(SourceRows(src, unit, r), "on_time")

\* the rollup rows of a resolution that lie strictly before the consumer_ts
\* of their device's stream
BeforeConsumer(res) ==
    {r \in TargetTable(res, db) :
        \E w \in Watermarks(db, res, r.dev_eui) :
            w.consumer_ts # None /\ r.bucket < w.consumer_ts}

C19_SummaryGuardsZero ==
    last.op = "summary" =>
        LET summ == last.summ
            es == last.summary
        IN  /\ ~last.raised
            /\ (~summ.none /\ summ.on_time = 0) =>
                    /\ es.savings.percentage = 0
                    /\ es.dimming_savings.percentage = 0
            /\ (~summ.none /\ summ.ndevices = 0) =>
                    /\ es.consumption.avg_in_watts = 0
                    /\ es.savings.avg_in_watts = 0
                    /\ es.dimming_savings.avg_in_watts = 0
                    /\ es.co2_savings.avg_in_ton = 0
            /\ summ.none =>
                    /\ es.consumption.total_in_kw = 0
                    /\ es.consumption.avg_in_watts = 0
                    /\ es.savings.percentage = 0
                    /\ es.savings.avg_in_watts = 0
                    /\ es.dimming_savings.percentage = 0
                    /\ es.dimming_savings.avg_in_watts = 0
                    /\ es.co2_savings.total_in_ton = 0
                    /\ es.co2_savings.avg_in_ton = 0

\* a summary of rows that consumed energy while no lamp was on and no device
\* is counted has been computed
C19_Witness ==
    /\ last.op = "summary"
    /\ ~last.summ.none
    /\ last.summ.ndevices = 0
    /\ last.summ.on_time = 0
    /\ last.summ.energy_in > 0
    /\ last.summary.consumption.total_in_kw > 0

\* the accepted readings of the device of a stream
ReadingsOf(name) == {r \in db.streetlamp_states : r.dev_eui = name[2]}

\* C20: the producer_ts of a device's hourly watermark is the greatest
\* hour-truncated time among the device's accepted readings; a reading with
\* an earlier time accepted after a later one does not lower it.
C20_ProducerIsLatestHour ==
    \A w \in db.stream_states :
        (w.name[1] = "hourly" /\ ReadingsOf(w.name) # {}) =>
            w.producer_ts
                = SetMax({round_to_hour(r.time) : r \in ReadingsOf(w.name)})

\* the create of a step gets as far as the energy-rate rule: the reading
\* passes the rules before it and the device has one latest reading
ReachesEnergyRule(d, ssc) ==
    /\ DecodeOk(ssc.data)
    /\ ~InvalidValue(MakeState(ssc))
    /\ ~FGreater(MakeState(ssc).dev_power, max_power)
    /\ ~FGreater(MakeState(ssc).dev_frequency, max_frequency)
    /\ LatestRows(d, ssc.dev_eui) # {}
    /\ ~ScalarRaises(LatestRows(d, ssc.dev_eui))

\* C21: for every reading and every prior reading of its device, a prior
\* reading later than the new one included, the divisor of the energy-rate
\* rule is max(1, floor(hours from the prior to the new reading)): it is at
\* least 1, never zero and never negative.
C21_EnergyDivisorAtLeastOne ==
    [][(last'.op = "create" /\ ReachesEnergyRule(db, last'.ssc)) =>
        LET ss == MakeState(last'.ssc)
            ls == scalar_one_or_none(LatestRows(db, ss.dev_eui))
            hours == (ss.time - ls.time) \div SecondsPerHour
        IN  /\ EcrHours(ss, ls) = IF hours > 1 THEN hours ELSE 1
            /\ EcrHours(ss, ls) >= 1]_vars

\* the times of a device's rows at the source resolution of a stage
SourceTimes(res, d, dev_eui) ==
    CASE res = "hourly" ->
            {r.time : r \in {x \in d.streetlamp_states : x.dev_eui = dev_eui}}
      [] res = "daily" ->
            {r.bucket : r \in {x \in d.hourly_streetlamp_states :
                                    x.dev_eui = dev_eui}}
      [] OTHER ->
            {r.bucket : r \in {x \in d.daily_streetlamp_states :
                                    x.dev_eui = dev_eui}}

\* the t0 a stage starts from when the watermark w has no consumer_ts yet
SeedOf(res, d, dev_eui) ==
    IF res = "hourly" THEN round_to_hour(SetMin(SourceTimes(res, d, dev_eui)))
    ELSE SetMin(SourceTimes(res, d, dev_eui))

\* the cases in which no range is due for a device
NothingPending(res, d, dev_eui) ==
    LET ws == Watermarks(d, res, dev_eui)
    IN  \/ ws = {}
        \/ \E w \in ws :
            \/ w.producer_ts = None
            \/ w.consumer_ts = None /\ SourceTimes(res, d, dev_eui) = {}
            \/ w.consumer_ts = None
                /\ SourceTimes(res, d, dev_eui) # {}
                /\ SeedOf(res, d, dev_eui) = w.producer_ts
            \/ w.consumer_ts # None /\ w.consumer_ts = w.producer_ts

\* C22: for every stage and device, the range computation returns no range
\* when the watermark is missing or has no producer_ts, when consumer_ts is
\* null and the device has no source row, or when t0 = t1; otherwise it
\* returns t1 = producer_ts and t0 = consumer_ts or, consumer_ts being null,
\* the time of the device's oldest source row (truncated to the hour for the
\* hourly stage). A stage changes no rollup row and no watermark of a device
\* for which no range is returned.
C22_RangeAsSpecified ==
    /\ [](\A res \in Resolutions : \A i \in 1..Len(Streetlamps) :
            LET dev_eui == Streetlamps[i]
                rg == RangeOf(res, db, dev_eui)
            IN  IF NothingPending(res, db, dev_eui)
                THEN ~rg.some /\ ~rg.raised
                ELSE \E w \in Watermarks(db, res, dev_eui) :
                        /\ rg.some
                        /\ ~rg.raised
                        /\ rg.t1 = w.producer_ts
                        /\ rg.t0 = IF w.consumer_ts # None THEN w.consumer_ts
                                   ELSE SeedOf(res, db, dev_eui))
    /\ [][\A res \in Resolutions : \A i \in 1..Len(Streetlamps) :
            (last'.op = res /\ ~RangeOf(res, db, Streetlamps[i]).some) =>
                DeviceView(db', Streetlamps[i]) = DeviceView(db, Streetlamps[i])
         ]_vars

\* ---- the services called with device identifiers that differ in case
\* uplinks of lamp a1 whose dev_eui arrives in lower or in upper case
CaseInputs ==
    {Ssc(t, t, e, encode_state_data(MeterAt(t))) :
        t \in {25800, 29400, 3146400}, e \in {"a1", "A1"}}

CaseCreate == \E ssc \in CaseInputs : ServiceCreate(ssc, MaxCalls)

NextCase ==
    \/ CaseCreate
    \/ HourlyAggregate
    \/ DailyAggregate
    \/ WeeklyAggregate
    \/ MonthlyAggregate

SpecCase == Init /\ [][NextCase]_vars

\* C23: whenever a stage that completes computed a range [t0, t1] for a
\* device, the watermark row the range computation read has consumer_ts = t1
\* afterwards, whatever the letter case of the name under which the row is
\* stored, and the same range is not computed again on the next pass.
C23_ConsumerSetOnRowRead ==
    [][\A res \in Resolutions : \A i \in 1..Len(Streetlamps) :
        (/\ last'.op = res
         /\ ~last'.raised
         /\ RangeOf(res, db, Streetlamps[i]).some) =>
            /\ \A w \in find_by_name(db, StreamName(res, Streetlamps[i])) :
                \E u \in db'.stream_states :
                    /\ u.id = w.id
                    /\ u.consumer_ts = RangeOf(res, db, Streetlamps[i]).t1
            /\ RangeOf(res, db', Streetlamps[i])
                    # RangeOf(res, db, Streetlamps[i])
     ]_vars

\* a pass has finished: the loop passes from a stage back to the batch
PassFinishes == pc \in Resolutions /\ pc' = "batch"

\* C24: a pass starts only when more than 15 minutes (900 s) have elapsed
\* since the previous pass finished, the elapsed time being reset when a pass
\* finishes and growing by the 30 s of each sleep; the loop leaves the end of
\* a pass and the end of a sleep only into an ingestion batch, so that a
\* batch lies between two consecutive passes; and a batch that is not
\* followed by a pass is followed by a sleep of 30 seconds before the next
\* batch.
C24_PassEveryFifteenMinutes ==
    [][/\ last'.op = "begin" => pc = "timer" /\ since > 900
       /\ since' # since =>
            \/ PassFinishes /\ since' = 0
            \/ /\ last'.op = "sleep"
               /\ since' = IF since + 30 > SinceCap THEN SinceCap
                           ELSE since + 30
       /\ PassFinishes => since' = 0
       /\ (pc \in Resolutions /\ pc' \notin Resolutions) => pc' = "batch"
       /\ (pc = "batch" /\ pc' # "batch") =>
            last'.op = "xread" /\ pc' = "items"
       /\ (pc = "items" /\ pc' # "items") => pc' = "timer"
       /\ (pc = "timer" /\ pc' # "timer") =>
            \/ last'.op = "begin" /\ pc' = "hourly"
            \/ last'.op = "sleep" /\ pc' = "batch" /\ since' > since
      ]_vars

\* a pass begins after an earlier pass has committed a consumer_ts and 31
\* sleeps have followed it
C24_Witness ==
    /\ last.op = "begin"
    /\ since > 900
    /\ \E w \in db.stream_states : w.consumer_ts # None

\* C25: within one worker the batch and the pass never overlap: while a stage
\* of the pass is running no entry of a batch is pending, a pass begins only
\* from the point after the batch has returned, with no entry of it left,
\* and a batch is read only from the point where no pass is running.
C25_BatchAndPassExclusive ==
    /\ [](pc \in Resolutions => entries = <<>>)
    /\ [][/\ last'.op = "begin" => pc = "timer" /\ entries = <<>>
          /\ last'.op = "xread" => pc = "batch"
          /\ last'.op \in {"create", "skip", "commit", "store_failure"} =>
                pc = "items"
          /\ last'.op \in Resolutions => pc = last'.op
         ]_vars

\* a pass begins after a batch that handled an entry has returned
C25_Witness ==
    /\ last.op = "begin"
    /\ pc = "hourly"
    /\ db.streetlamp_states # {}
    /\ queue = <<>>
    /\ sent > 0

\* the entries of a batch that carry data, for which create is called
WithData(es) == {i \in 1..Len(es) : es[i].value.data # <<>>}

\* C26: with two workers on the same stream and store nothing prevents
\* double processing: a worker's read returns every entry still on the
\* stream, those the other worker holds in its running batch included, and
\* a batch of the second worker that completes persists one Reading or Alarm
\* for each of its entries with data, those the first worker has already
\* persisted and deleted included.
C26_NothingPreventsDoubleProcessing ==
    [][/\ last'.op = "peer_xread" =>
            \A i \in 1..Len(entries) :
                InQueue(entries[i].id) =>
                    \E j \in 1..Len(peer'.entries) :
                        peer'.entries[j] = entries[i]
       /\ last'.op = "xread" =>
            \A j \in 1..Len(peer.entries) :
                InQueue(peer.entries[j].id) =>
                    \E i \in 1..Len(entries') : entries'[i] = peer.entries[j]
       /\ (last'.op = "peer_batch" /\ ~last'.raised) =>
            Created(db') = Created(db) + Cardinality(WithData(peer.entries))
      ]_vars

\* one message was sent, both workers read it, and it is stored as two
\* Readings
C26_Witness ==
    /\ sent = 1
    /\ last.op = "peer_batch"
    /\ \E r1, r2 \in db.streetlamp_states :
        /\ r1.id # r2.id
        /\ r1.deduplication_id = r2.deduplication_id
        /\ r1.time = r2.time
        /\ r1.dev_eui = r2.dev_eui

\* one message was sent, both workers read it, and it is stored as two Alarms
C26_WitnessAlarms ==
    /\ sent = 1
    /\ last.op = "peer_batch"
    /\ Cardinality(db.streetlamp_alarms) = 2

\* C27: a failure at a message of a batch never undoes the Readings and
\* Alarms stored for the messages handled before it in the batch: when a
\* step of the batch raises, every Reading and Alarm the batch had inserted
\* is among the committed rows afterwards.
C27_EarlierInsertsSurviveFailure ==
    [][(pc = "items" /\ last'.raised) =>
            /\ tx.streetlamp_states \subseteq db'.streetlamp_states
            /\ tx.streetlamp_alarms \subseteq db'.streetlamp_alarms]_vars

\* C28: decode_state_data raises, instead of returning a device state, for
\* every text obtained by cutting one or more bytes off a valid encoded
\* payload and for every text that is not valid base64.
C28_MalformedPayloadRaises ==
    [][last'.op = "decode" => last'.raised]_vars

\* the stream names and timestamps the watermark operations are tried with
ProbeNames == {StreamName(res, e) : res \in Resolutions, e \in {"a1", "b2"}}
ProbeTimes == {0, 25200, 28800}

\* d and e hold the same rows outside stream_states
SameButWatermarks(d, e) ==
    \A t \in DOMAIN d : t # "stream_states" => d[t] = e[t]

\* C29: on every reachable store, update_producer(name, ts) adds the
\* watermark with producer_ts = ts and a null consumer_ts when none of that
\* name exists and otherwise changes only the producer_ts of that watermark
\* to ts; update_consumer(name, ts) changes only the consumer_ts of the
\* watermark of that name to ts and changes nothing when there is none.
\* Neither touches another watermark or another table.
C29_WatermarkOperations ==
    \A name \in ProbeNames : \A ts \in ProbeTimes :
        LET old == db.stream_states
            hit == {r \in old : r.name = name}
            p == update_producer(db, name, ts)
            c == update_consumer(db, name, ts)
        IN  /\ SameButWatermarks(db, p)
            /\ SameButWatermarks(db, c)
            /\ hit = {} =>
                /\ old \subseteq p.stream_states
                /\ \E r \in p.stream_states \ old :
                    /\ p.stream_states = old \cup {r}
                    /\ r.name = name
                    /\ r.producer_ts = ts
                    /\ r.consumer_ts = None
                /\ c = db
            /\ hit # {} =>
                /\ p.stream_states =
                    {IF r \in hit THEN [r EXCEPT !.producer_ts = ts] ELSE r :
                        r \in old}
                /\ c.stream_states =
                    {IF r \in hit THEN [r EXCEPT !.consumer_ts = ts] ELSE r :
                        r \in old}

\* a stage has set a consumer_ts and a producer_ts: there is a watermark with
\* a consumer_ts to keep, there are watermarks to create
C29_Witness ==
    /\ last.op = "hourly"
    /\ last.ret > 0
    /\ \E r \in db.stream_states : r.consumer_ts # None
    /\ \E name \in ProbeNames : \A r \in db.stream_states : r.name # name

\* the resolutions whose producer_ts an operation writes
Produces(op) ==
    CASE op = "create" -> {"hourly"}
      [] op = "hourly" -> {"daily"}
      [] op = "daily" -> {"weekly", "monthly"}
      [] OTHER -> {}

\* C30: the producer_ts of a watermark of resolution R is created or changed
\* only by the operation that produces data at R (create for hourly, the
\* hourly stage for daily, the daily stage for weekly and monthly), its
\* consumer_ts is changed only by the stage of R, a watermark is created with
\* a null consumer_ts, and no operation removes a watermark; so no stage
\* writes the producer_ts of its own stream and create writes no consumer_ts.
C30_TwoWritersPerWatermark ==
    [][/\ \A r \in db.stream_states :
            \E u \in db'.stream_states : u.id = r.id /\ u.name = r.name
       /\ \A u \in db'.stream_states :
            LET olds == {r \in db.stream_states : r.id = u.id}
            IN  /\ olds = {} =>
                    u.name[1] \in Produces(last'.op) /\ u.consumer_ts = None
                /\ \A r \in olds :
                    /\ r.producer_ts # u.producer_ts =>
                            u.name[1] \in Produces(last'.op)
                    /\ r.consumer_ts # u.consumer_ts =>
                            last'.op = u.name[1]
      ]_vars

\* the daily stage has consumed a range: it set the consumer_ts of a daily
\* watermark whose producer_ts the hourly stage wrote, and wrote the
\* producer_ts of the weekly and monthly watermarks
C30_Witness ==
    /\ last.op = "daily"
    /\ last.ret > 0
    /\ \E d \in db.stream_states, w \in db.stream_states,
            m \in db.stream_states, h \in db.stream_states :
        /\ d.name[1] = "daily" /\ d.consumer_ts # None
        /\ h.name[1] = "hourly" /\ h.consumer_ts # None
        /\ w.name[1] = "weekly" /\ w.producer_ts # None
        /\ m.name[1] = "monthly" /\ m.producer_ts # None

\* the Readings stored for a request: same device, time and deduplication id
ReadingsFor(d, ssc) ==
    {r \in d.streetlamp_states :
        /\ r.dev_eui = ssc.dev_eui
        /\ r.time = ssc.time
        /\ r.deduplication_id = ssc.deduplication_id}

AlarmsFor(d, ssc) ==
    {a \in d.streetlamp_alarms :
        a.dev_eui = ssc.dev_eui /\ a.time = ssc.time}

\* C32: when the deletion of a handled message fails, the message stays on
\* the stream, the Reading or Alarm produced for it is in the open
\* transaction, and the batch goes on with its remaining messages; and when
\* the batch ends, every message with data that it handled and that is still
\* on the stream has its Reading or Alarm among the committed rows.
C32_FailedDeletionKeepsResult ==
    [][/\ last'.op = "xdel_failure" =>
            /\ queue' = queue
            /\ InQueue(last'.id)
            /\ pc' = "items"
            /\ entries' = Tail(entries)
            /\ last'.ssc.data # <<>> =>
                    ReadingsFor(tx', last'.ssc) \cup AlarmsFor(tx', last'.ssc)
                        # {}
       /\ (pc = "items" /\ pc' = "timer") =>
            \A i \in 1..Len(queue') :
                (/\ queue'[i].value.data # <<>>
                 /\ \/ queue'[i].id < batch_last_id_seen'
                    \/ queue'[i].id = batch_last_id_seen' /\ ~last'.raised) =>
                        ReadingsFor(db', queue'[i].value)
                            \cup AlarmsFor(db', queue'[i].value) # {}
      ]_vars

\* the store without its alarms
WithoutAlarms(d) == [d EXCEPT !.streetlamp_alarms = {}]

\* C33: a create that reaches the energy-rate rule and whose lookup returns
\* compares the new reading with a stored Reading of the same device that no
\* stored Reading of the device is later than, and with nothing when the
\* device has no stored Reading: it rejects with an OVER_ENERGY alarm exactly
\* when the energy-rate rule fails against that Reading. The alarms stored
\* (the rejected readings) have no part in the outcome, so after a rejection
\* the next reading is again compared with the last accepted one.
C33_ReferenceIsLatestAccepted ==
    [][(last'.op = "create" /\ ~last'.raised) =>
        LET ss == MakeState(last'.ssc)
            mine == {r \in db.streetlamp_states : r.dev_eui = ss.dev_eui}
            rejected == db'.streetlamp_alarms \ db.streetlamp_alarms
        IN  /\ mine = {} => last'.ret # None
            /\ mine # {} =>
                \E ls \in mine :
                    /\ \A o \in mine : o.time <= ls.time
                    /\ last'.ret = None <=> OverEnergy(ss, ls)
            /\ last'.ret = None =>
                /\ \A a \in rejected : a.atype = "OVER_ENERGY"
                /\ Cardinality(rejected) = 1
                /\ db'.streetlamp_states = db.streetlamp_states
            /\ create(WithoutAlarms(db), last'.ssc).ret = None
                    <=> last'.ret = None]_vars

\* a reading of a1 was accepted, a later one rejected for its energy rate,
\* and the reading after it was compared with the accepted one and rejected
\* too
C33_Witness ==
    /\ last.op = "create"
    /\ last.ret = None
    /\ Cardinality({r \in db.streetlamp_states : r.dev_eui = "a1"}) = 1
    /\ Cardinality({a \in db.streetlamp_alarms :
                        a.dev_eui = "a1" /\ a.atype = "OVER_ENERGY"}) = 2

\* the hours strictly before P in which the device has a stored Reading or an
\* hourly row
HoursBefore(d, dev_eui, P) ==
    {h \in {date_trunc("hour", r.time) :
                r \in {s \in d.streetlamp_states : s.dev_eui = dev_eui}}
            \cup {r.bucket :
                r \in {s \in d.hourly_streetlamp_states : s.dev_eui = dev_eui}} :
        h < P}

\* the hourly rows of the device for the hour h are exactly one row, holding
\* the aggregate over all the stored Readings of the device in that hour
HourIsAggregated(d, dev_eui, h) ==
    LET rows == {r \in d.hourly_streetlamp_states :
                    r.dev_eui = dev_eui /\ r.bucket = h}
        gs == HourlyGroups(d, dev_eui, h, h + SecondsPerHour - 1)
    IN  /\ Cardinality(rows) = 1
        /\ Cardinality(gs) = 1
        /\ \A r \in rows : \A g \in gs : SameColumns(r, g)

\* C34: whenever a completed pass leaves the hourly watermark of a device
\* with consumer_ts = producer_ts = P, the hourly row of every hour strictly
\* before P is the aggregate over exactly the stored Readings of the device
\* whose time falls in that hour, whatever the order of the readings and the
\* interleaving of creates and passes.
C34_CaughtUpHoursAreComplete ==
    (last.op = "pass" /\ ~last.raised) =>
        \A i \in DOMAIN Streetlamps :
            \A w \in Watermarks(db, "hourly", Streetlamps[i]) :
                (w.producer_ts # None /\ w.consumer_ts = w.producer_ts) =>
                    \A h \in HoursBefore(db, Streetlamps[i], w.producer_ts) :
                        HourIsAggregated(db, Streetlamps[i], h)

\* C35: the lookups of the latest and of the oldest Reading of a device never
\* fail: a create of a well-formed reading returns an outcome and a pass
\* completes in every reachable state, also after two Readings of one device
\* with the same time have been stored.
C35_LookupNeverFails ==
    [][/\ (last'.op = "create" /\ DecodeOk(last'.ssc.data)) =>
            /\ ~ScalarRaises(LatestRows(db, last'.ssc.dev_eui))
            /\ ~last'.raised
       /\ last'.op = "pass" =>
            /\ \A i \in DOMAIN Streetlamps :
                    ~get_hourly_range(db, StreamName("hourly", Streetlamps[i]),
                                      Streetlamps[i]).raised
            /\ ~last'.raised]_vars

\* C36: the consumer_ts of every watermark is monotonic: no create and no
\* pass moves it to an earlier time than the one it holds.
C36_ConsumerMonotonic ==
    [][\A w \in db.stream_states : \A v \in db'.stream_states :
            (v.name = w.name /\ w.consumer_ts # None /\ v.consumer_ts # None)
                => v.consumer_ts >= w.consumer_ts]_vars

\* everything the store holds of a device: its Readings, its Alarms, its
\* rollup rows and its watermarks, each row as stored
Belongings(d, dev_eui) ==
    [states |-> {r \in d.streetlamp_states : r.dev_eui = dev_eui},
     alarms |-> {r \in d.streetlamp_alarms : r.dev_eui = dev_eui},
     hourly |-> {r \in d.hourly_streetlamp_states : r.dev_eui = dev_eui},
     daily |-> {r \in d.daily_streetlamp_states : r.dev_eui = dev_eui},
     weekly |-> {r \in d.weekly_streetlamp_states : r.dev_eui = dev_eui},
     monthly |-> {r \in d.monthly_streetlamp_states : r.dev_eui = dev_eui},
     streams |-> {w \in d.stream_states : w.name[2] = dev_eui}]

Devices == {Streetlamps[i] : i \in DOMAIN Streetlamps}

\* C37: devices are isolated: a create of a reading of one device leaves
\* every Reading, Alarm, rollup row and watermark of the other devices as it
\* was, and so does each stage's processing of one device, in every
\* reachable store.
C37_DevicesIsolated ==
    [][/\ last'.op = "create" =>
            \A B \in Devices \ {last'.ssc.dev_eui} :
                Belongings(db', B) = Belongings(db, B)
       /\ \A res \in Resolutions : \A A \in Devices : \A B \in Devices \ {A} :
            Belongings(StageDevice(res, db, A).db, B) = Belongings(db, B)]_vars

\* the hourly stage has aggregated a1 while b2 has a reading and a watermark
\* of its own, and the create of a reading of a1 follows, which gives the
\* hourly stage a new range of a1
C37_Witness ==
    /\ last.op = "create"
    /\ last.ssc.dev_eui = "a1"
    /\ last.ret # None
    /\ Belongings(db, "a1").hourly # {}
    /\ Belongings(db, "b2").states # {}
    /\ Belongings(db, "b2").streams # {}
    /\ StageDevice("hourly", db, "a1").db # db

\* C38: a message with an empty data field is handled without create: the
\* open transaction, the committed store (Readings, Alarms, watermarks) and
\* the count n stay as they are, the loop goes on with the next message, and
\* the message is removed from the queue (unless the deletion itself fails).
\* n grows by one exactly for a message for which create returned a Reading
\* id, and it is the number the batch reports.
C38_EmptyDataOnlyDeleted ==
    [][/\ (pc = "items" /\ entries # <<>> /\ entries' # entries) =>
            LET e == Head(entries)
            IN  /\ e.value.data = <<>> =>
                    /\ tx' = tx
                    /\ db' = db
                    /\ n' = n
                    /\ entries' = Tail(entries)
                    /\ last'.ret = None
                    /\ last'.op # "xdel_failure" =>
                        /\ \A i \in 1..Len(queue') : queue'[i].id # e.id
                        /\ e \in deleted'
                /\ (e.value.data # <<>> /\ entries' = Tail(entries)) =>
                    n' = IF create(tx, e.value).ret # None THEN n + 1 ELSE n
       /\ pc' = "items" /\ pc # "items" => n' = 0
       /\ last'.op = "commit" => last'.ret = n]_vars

\* a batch has stored the Reading of its first message, and its second
\* message, with empty data, has been deleted with the count left at 1
C38_Witness ==
    /\ last.op = "skip"
    /\ last.ssc.data = <<>>
    /\ n = 1
    /\ Cardinality(tx.streetlamp_states) = 1
    /\ tx.streetlamp_alarms = {}
    /\ \E e \in deleted : e.id = last.id
    /\ \A i \in 1..Len(queue) : queue[i].id # last.id

=============================================================================
